---- MODULE Spec2Model ----
(***************************************************************************)
(* DOMTextScanner (ext/js/dom/dom-text-scanner.js): a cursor over a DOM    *)
(* tree that seeks forward or backward by a number of characters and       *)
(* accumulates the visible text.                                           *)
(*                                                                         *)
(* Strings are sequences of UTF-16 code units (integers), offsets are      *)
(* 0-based indices into them, as in the source.  A document is a sequence  *)
(* of node records; a node is named by its index and 0 is null.            *)
(***************************************************************************)
EXTENDS Integers, Sequences, FiniteSets, TLC

\* ------------------------------------------------------------------ bounds

\* Largest |length| passed to seek().
MaxLen == 5
\* Largest number of seek() calls made on one cursor.
MaxSeeks == 2

\* --------------------------------------------------------------- constants

NULL == 0

ELEMENT_NODE == 1
TEXT_NODE == 3

TAB == 9
LF == 10
FF == 12
CR == 13
SPACE == 32
ZWSP == 8203
ZWNJ == 8204

\* ----------------------------------------------------------------- helpers

Min(a, b) == IF a <= b THEN a ELSE b

\* '\n'.repeat(n)
Repeat(c, n) == [i \in 1..n |-> c]

\* ------------------------------------------------- StringUtil (code points)

isHighSurrogate(c) == c >= 55296 /\ c < 56320

isLowSurrogate(c) == c >= 56320 /\ c < 57344

\* StringUtil.readCodePointsForward(text, position, 1)
readCodePointsForward(text, position) ==
    LET char == text[position + 1]
    IN  IF /\ position + 1 < Len(text)
           /\ isHighSurrogate(char)
           /\ isLowSurrogate(text[position + 2])
        THEN <<char, text[position + 2]>>
        ELSE <<char>>

\* StringUtil.readCodePointsBackward(text, position, 1)
readCodePointsBackward(text, position) ==
    LET char == text[position + 1]
    IN  IF /\ position - 1 >= 0
           /\ isLowSurrogate(char)
           /\ isHighSurrogate(text[position])
        THEN <<text[position], char>>
        ELSE <<char>>

\* ------------------------------------------------------------ computed style

\* A display value is its space separated parts, each part its hyphen
\* separated words: "inline-block" is << <<"inline", "block">> >>.
DisplayInline == << <<"inline">> >>
DisplayBlock == << <<"block">> >>
DisplayNone == << <<"none">> >>
DisplayRuby == << <<"ruby">> >>
DisplayRubyText == << <<"ruby", "text">> >>
DisplayInlineBlock == << <<"inline", "block">> >>
DisplayListItem == << <<"list", "item">> >>
DisplayBlockFlow == << <<"block">>, <<"flow">> >>
DisplayRubyBase == << <<"ruby", "base">> >>
DisplayFlex == << <<"flex">> >>
DisplayInlineFlex == << <<"inline", "flex">> >>
DisplayGrid == << <<"grid">> >>
DisplayTable == << <<"table">> >>
DisplayTableCell == << <<"table", "cell">> >>
DisplayContents == << <<"contents">> >>
\* The empty string: no display value at all.
DisplayEmpty == << >>

\* A colour is what isCSSColorTransparent reads of it: whether it is a string,
\* whether it starts with "rgba(", and the characters between its last comma
\* and its closing parenthesis.
ColorBlack == [isString |-> TRUE, rgba |-> FALSE, alpha |-> <<>>]
ColorTransparent == [isString |-> TRUE, rgba |-> TRUE, alpha |-> <<" ", "0">>]
ColorHalf == [isString |-> TRUE, rgba |-> TRUE, alpha |-> <<" ", "0", ".", "5">>]
ColorUndefined == [isString |-> FALSE, rgba |-> FALSE, alpha |-> <<>>]

\* Mutant of parseFloat: a string that does not start with a number gives 0.
parseFloat_NaNIsZero(s) ==
    CASE s = "1" -> [nan |-> FALSE, tenths |-> 10]
      [] s = "0.5" -> [nan |-> FALSE, tenths |-> 5]
      [] s = "16px" -> [nan |-> FALSE, tenths |-> 160]
      [] OTHER -> [nan |-> FALSE, tenths |-> 0]

\* parseFloat of the opacity and font-size strings the documents use, in
\* tenths; "nan" for a string that does not start with a number.
parseFloat(s) ==
    CASE s = "1" -> [nan |-> FALSE, tenths |-> 10]
      [] s = "0" -> [nan |-> FALSE, tenths |-> 0]
      [] s = "0.5" -> [nan |-> FALSE, tenths |-> 5]
      [] s = "16px" -> [nan |-> FALSE, tenths |-> 160]
      [] s = "0px" -> [nan |-> FALSE, tenths |-> 0]
      [] OTHER -> [nan |-> TRUE, tenths |-> 0]

DefaultStyle ==
    [display |-> DisplayInline, position |-> "static", visibility |-> "visible",
     opacity |-> "1", fontSize |-> "16px", color |-> ColorBlack,
     webkitTextFillColor |-> ColorBlack, whiteSpace |-> "normal",
     userSelect |-> "auto", webkitUserSelect |-> "auto",
     MozUserSelect |-> "undefined", msUserSelect |-> "undefined"]

BlockStyle == [DefaultStyle EXCEPT !.display = DisplayBlock]

\* --------------------------------------------------------------- documents

Element(name, parent, children, style) ==
    [nodeType |-> ELEMENT_NODE, nodeName |-> name, parentNode |-> parent,
     childNodes |-> children, nodeValue |-> <<>>, style |-> style]

Text(parent, value) ==
    [nodeType |-> TEXT_NODE, nodeName |-> "#text", parentNode |-> parent,
     childNodes |-> <<>>, nodeValue |-> value, style |-> DefaultStyle]

Comment(parent) ==
    [nodeType |-> 8, nodeName |-> "#comment", parentNode |-> parent,
     childNodes |-> <<>>, nodeValue |-> <<>>, style |-> DefaultStyle]

Document(children) ==
    [nodeType |-> 9, nodeName |-> "#document", parentNode |-> NULL,
     childNodes |-> children, nodeValue |-> <<>>, style |-> DefaultStyle]

firstChild(d, n) ==
    IF Len(d[n].childNodes) = 0 THEN NULL ELSE d[n].childNodes[1]

lastChild(d, n) ==
    IF Len(d[n].childNodes) = 0 THEN NULL
    ELSE d[n].childNodes[Len(d[n].childNodes)]

\* The position of n among its parent's children.
ChildIndex(d, n) ==
    CHOOSE i \in 1..Len(d[d[n].parentNode].childNodes) :
        d[d[n].parentNode].childNodes[i] = n

nextSibling(d, n) ==
    IF d[n].parentNode = NULL THEN NULL
    ELSE LET sibs == d[d[n].parentNode].childNodes
             i == ChildIndex(d, n)
         IN  IF i < Len(sibs) THEN sibs[i + 1] ELSE NULL

previousSibling(d, n) ==
    IF d[n].parentNode = NULL THEN NULL
    ELSE LET sibs == d[d[n].parentNode].childNodes
             i == ChildIndex(d, n)
         IN  IF i > 1 THEN sibs[i - 1] ELSE NULL

\* nodeName.toUpperCase() of the names the documents use.
toUpperCase(name) ==
    CASE name = "rt" -> "RT"
      [] name = "ruby" -> "RUBY"
      [] name = "script" -> "SCRIPT"
      [] OTHER -> name

\* window.getComputedStyle(element)
getComputedStyle(d, element) == d[element].style

\* ---------------------------------------------------------- static helpers

RECURSIVE getParentElement(_, _)
getParentElement(d, node) ==
    IF node = NULL THEN NULL
    ELSE IF d[node].nodeType = ELEMENT_NODE THEN node
    ELSE getParentElement(d, d[node].parentNode)

getParentRubyElement(d, node) ==
    LET node2 == getParentElement(d, node)
    IN  IF node2 # NULL /\ toUpperCase(d[node2].nodeName) = "RT"
        THEN LET node3 == d[node2].parentNode
             IN  IF node3 # NULL /\ toUpperCase(d[node3].nodeName) = "RUBY"
                 THEN node3
                 ELSE NULL
        ELSE NULL

isStyleSelectable(style) ==
    ~(\/ style.userSelect = "none"
      \/ style.webkitUserSelect = "none"
      \/ style.MozUserSelect = "none"
      \/ style.msUserSelect = "none")

\* /,\s*0.?0*\)$/ on the characters after the last comma.
AlphaMatches(alpha) ==
    \E i \in 0..Len(alpha) :
        /\ i < Len(alpha)
        /\ \A j \in 1..i : alpha[j] = " "
        /\ alpha[i + 1] = "0"
        /\ \/ \A j \in (i + 2)..Len(alpha) : alpha[j] = "0"
           \/ \A j \in (i + 3)..Len(alpha) : alpha[j] = "0"

isCSSColorTransparent(cssColor) ==
    /\ cssColor.isString
    /\ cssColor.rgba
    /\ AlphaMatches(cssColor.alpha)

\* Mutant of isStyleVisible: text that is not selectable is invisible only
\* when both colours are transparent.
isStyleVisible_BothColors(style) ==
    ~(\/ style.visibility = "hidden"
      \/ (~parseFloat(style.opacity).nan /\ parseFloat(style.opacity).tenths <= 0)
      \/ (~parseFloat(style.fontSize).nan /\ parseFloat(style.fontSize).tenths <= 0)
      \/ /\ ~isStyleSelectable(style)
         /\ isCSSColorTransparent(style.color)
         /\ isCSSColorTransparent(style.webkitTextFillColor))

isStyleVisible(style) ==
    ~(\/ style.visibility = "hidden"
      \/ (~parseFloat(style.opacity).nan /\ parseFloat(style.opacity).tenths <= 0)
      \/ (~parseFloat(style.fontSize).nan /\ parseFloat(style.fontSize).tenths <= 0)
      \/ /\ ~isStyleSelectable(style)
         /\ \/ isCSSColorTransparent(style.color)
            \/ isCSSColorTransparent(style.webkitTextFillColor))

\* Mutant of doesCSSDisplayChangeLayout: of the ruby values it is ruby that
\* changes the layout, not ruby-*.
doesCSSDisplayChangeLayout_RubyContainer(cssDisplay) ==
    IF Len(cssDisplay) = 0 THEN FALSE
    ELSE LET outside == cssDisplay[1]
             pos == IF Len(outside) > 1 THEN 1 ELSE -1
             first == outside[1]
         IN  CASE first \in {"block", "flex", "grid", "list", "table"} -> TRUE
               [] first = "ruby" -> (pos < 0)
               [] OTHER -> FALSE

doesCSSDisplayChangeLayout(cssDisplay) ==
    IF Len(cssDisplay) = 0 THEN FALSE
    ELSE LET outside == cssDisplay[1]
             pos == IF Len(outside) > 1 THEN 1 ELSE -1
             first == outside[1]
         IN  CASE first \in {"block", "flex", "grid", "list", "table"} -> TRUE
               [] first = "ruby" -> (pos >= 0)
               [] OTHER -> FALSE

\* Mutant of getElementSeekInfo: style.position is not consulted, an
\* out-of-flow element counts as its display says.
getElementSeekInfo_PositionIgnored(d, element) ==
    LET name == toUpperCase(d[element].nodeName)
        style == getComputedStyle(d, element)
        display == style.display
        visible == (display # DisplayNone /\ isStyleVisible(style))
    IN  CASE name \in {"HEAD", "RT", "SCRIPT", "STYLE"} ->
                [enterable |-> FALSE, newlines |-> 0]
          [] name = "BR" ->
                [enterable |-> FALSE, newlines |-> 1]
          [] OTHER ->
                [enterable |-> visible /\ name \notin {"TEXTAREA", "INPUT", "BUTTON"},
                 newlines |-> IF ~visible THEN 0
                              ELSE IF doesCSSDisplayChangeLayout(display) THEN 1
                              ELSE 0]

\* Mutant of getElementSeekInfo: HEAD, RT, SCRIPT and STYLE are treated as any
\* other element.
getElementSeekInfo_NoSkippedNames(d, element) ==
    LET name == toUpperCase(d[element].nodeName)
        style == getComputedStyle(d, element)
        display == style.display
        visible == (display # DisplayNone /\ isStyleVisible(style))
        positioned == style.position \in {"absolute", "fixed", "sticky"}
    IN  CASE name = "BR" ->
                [enterable |-> FALSE, newlines |-> 1]
          [] OTHER ->
                [enterable |-> visible /\ name \notin {"TEXTAREA", "INPUT", "BUTTON"},
                 newlines |-> IF ~visible THEN 0
                              ELSE IF positioned THEN 2
                              ELSE IF doesCSSDisplayChangeLayout(display) THEN 1
                              ELSE 0]

\* Mutant of getElementSeekInfo: BR is not entered, like TEXTAREA, INPUT and
\* BUTTON, and its newlines are those of its style.
getElementSeekInfo_BRByStyle(d, element) ==
    LET name == toUpperCase(d[element].nodeName)
        style == getComputedStyle(d, element)
        display == style.display
        visible == (display # DisplayNone /\ isStyleVisible(style))
        positioned == style.position \in {"absolute", "fixed", "sticky"}
    IN  CASE name \in {"HEAD", "RT", "SCRIPT", "STYLE"} ->
                [enterable |-> FALSE, newlines |-> 0]
          [] OTHER ->
                [enterable |-> visible
                               /\ name \notin {"BR", "TEXTAREA", "INPUT", "BUTTON"},
                 newlines |-> IF ~visible THEN 0
                              ELSE IF positioned THEN 2
                              ELSE IF doesCSSDisplayChangeLayout(display) THEN 1
                              ELSE 0]

\* Mutant of getElementSeekInfo: the display is tried before the position.
getElementSeekInfo_DisplayFirst(d, element) ==
    LET name == toUpperCase(d[element].nodeName)
        style == getComputedStyle(d, element)
        display == style.display
        visible == (display # DisplayNone /\ isStyleVisible(style))
        positioned == style.position \in {"absolute", "fixed", "sticky"}
    IN  CASE name \in {"HEAD", "RT", "SCRIPT", "STYLE"} ->
                [enterable |-> FALSE, newlines |-> 0]
          [] name = "BR" ->
                [enterable |-> FALSE, newlines |-> 1]
          [] OTHER ->
                [enterable |-> visible /\ name \notin {"TEXTAREA", "INPUT", "BUTTON"},
                 newlines |-> IF ~visible THEN 0
                              ELSE IF doesCSSDisplayChangeLayout(display) THEN 1
                              ELSE IF positioned THEN 2
                              ELSE 0]

\* Mutant of getElementSeekInfo: an element that is not visible is not
\* entered but keeps the newlines of its position and display.
getElementSeekInfo_InvisibleKeepsNewlines(d, element) ==
    LET name == toUpperCase(d[element].nodeName)
        style == getComputedStyle(d, element)
        display == style.display
        visible == (display # DisplayNone /\ isStyleVisible(style))
        positioned == style.position \in {"absolute", "fixed", "sticky"}
    IN  CASE name \in {"HEAD", "RT", "SCRIPT", "STYLE"} ->
                [enterable |-> FALSE, newlines |-> 0]
          [] name = "BR" ->
                [enterable |-> FALSE, newlines |-> 1]
          [] OTHER ->
                [enterable |-> visible /\ name \notin {"TEXTAREA", "INPUT", "BUTTON"},
                 newlines |-> IF positioned THEN 2
                              ELSE IF doesCSSDisplayChangeLayout(display) THEN 1
                              ELSE 0]

getElementSeekInfo(d, element) ==
    LET name == toUpperCase(d[element].nodeName)
        style == getComputedStyle(d, element)
        display == style.display
        visible == (display # DisplayNone /\ isStyleVisible(style))
        positioned == style.position \in {"absolute", "fixed", "sticky"}
    IN  CASE name \in {"HEAD", "RT", "SCRIPT", "STYLE"} ->
                [enterable |-> FALSE, newlines |-> 0]
          [] name = "BR" ->
                [enterable |-> FALSE, newlines |-> 1]
          [] OTHER ->
                [enterable |-> visible /\ name \notin {"TEXTAREA", "INPUT", "BUTTON"},
                 newlines |-> IF ~visible THEN 0
                              ELSE IF positioned THEN 2
                              ELSE IF doesCSSDisplayChangeLayout(display) THEN 1
                              ELSE 0]

\* Mutant of getCharacterAttributes: whitespace is never collapsible.
getCharacterAttributes_NoCollapse(character, preserveNewlines, preserveWhitespace) ==
    LET code == character[1]
    IN  CASE code \in {TAB, FF, CR, SPACE} -> 2
          [] code = LF -> 3
          [] code \in {ZWSP, ZWNJ} -> 0
          [] OTHER -> 2

\* Mutant of getCharacterAttributes: a line feed is preserved when whitespace
\* is.
getCharacterAttributes_NewlineByWhitespace(character, preserveNewlines, preserveWhitespace) ==
    LET code == character[1]
    IN  CASE code \in {TAB, FF, CR, SPACE} -> IF preserveWhitespace THEN 2 ELSE 1
          [] code = LF -> IF preserveWhitespace THEN 3 ELSE 1
          [] code \in {ZWSP, ZWNJ} -> 0
          [] OTHER -> 2

getCharacterAttributes(character, preserveNewlines, preserveWhitespace) ==
    LET code == character[1]
    IN  CASE code \in {TAB, FF, CR, SPACE} -> IF preserveWhitespace THEN 2 ELSE 1
          [] code = LF -> IF preserveNewlines THEN 3 ELSE 1
          [] code \in {ZWSP, ZWNJ} -> 0
          [] OTHER -> 2

RECURSIVE getNextNodeExit_Bounce(_, _, _, _)
\* Mutant of getNextNodeExit: a node without a sibling in the direction of the
\* scan gives its sibling in the other direction before its parent is tried.
getNextNodeExit_Bounce(d, node, forward, exitedNodes) ==
    LET exited == Append(exitedNodes, node)
        sibling == IF forward THEN nextSibling(d, node) ELSE previousSibling(d, node)
        other == IF forward THEN previousSibling(d, node) ELSE nextSibling(d, node)
    IN  IF sibling # NULL THEN [next |-> sibling, exitedNodes |-> exited]
        ELSE IF other # NULL THEN [next |-> other, exitedNodes |-> exited]
        ELSE IF d[node].parentNode = NULL THEN [next |-> NULL, exitedNodes |-> exited]
        ELSE getNextNodeExit_Bounce(d, d[node].parentNode, forward, exited)

RECURSIVE getNextNodeExit(_, _, _, _)
\* The while (true) loop of getNextNode: record the node as exited, take its
\* sibling, or climb to its parent and repeat.
getNextNodeExit(d, node, forward, exitedNodes) ==
    LET exited == Append(exitedNodes, node)
        sibling == IF forward THEN nextSibling(d, node) ELSE previousSibling(d, node)
    IN  IF sibling # NULL THEN [next |-> sibling, exitedNodes |-> exited]
        ELSE IF d[node].parentNode = NULL THEN [next |-> NULL, exitedNodes |-> exited]
        ELSE getNextNodeExit(d, d[node].parentNode, forward, exited)

\* Mutant of getNextNode: the children are entered at the first child in
\* both directions.
getNextNode_FirstChildAlways(d, node, forward, visitChildren) ==
    LET next == IF visitChildren THEN firstChild(d, node) ELSE NULL
    IN  IF next = NULL THEN getNextNodeExit(d, node, forward, <<>>)
        ELSE [next |-> next, exitedNodes |-> <<>>]

getNextNode(d, node, forward, visitChildren) ==
    LET next == IF visitChildren
                THEN (IF forward THEN firstChild(d, node) ELSE lastChild(d, node))
                ELSE NULL
    IN  IF next = NULL THEN getNextNodeExit(d, node, forward, <<>>)
        ELSE [next |-> next, exitedNodes |-> <<>>]

\* ------------------------------------------------------------ test documents

\* "hello world" in an inline element of a document.
DocHello ==
    << Document(<<2>>),
       Element("SPAN", 1, <<3>>, DefaultStyle),
       Text(2, <<104, 101, 108, 108, 111, 32, 119, 111, 114, 108, 100>>) >>

\* "a   b"
DocSpaces ==
    << Element("SPAN", NULL, <<2>>, DefaultStyle),
       Text(1, <<97, 32, 32, 32, 98>>) >>

\* <div><div>foo</div><div>bar</div></div>
DocBlocks ==
    << Element("DIV", NULL, <<2, 4>>, BlockStyle),
       Element("DIV", 1, <<3>>, BlockStyle),
       Text(2, <<102, 111, 111>>),
       Element("DIV", 1, <<5>>, BlockStyle),
       Text(4, <<98, 97, 114>>) >>

\* <div>"a "<div style="position:absolute">b</div>c</div>
DocAbsolute ==
    << Element("DIV", NULL, <<2, 3, 5>>, BlockStyle),
       Text(1, <<97, 32>>),
       Element("DIV", 1, <<4>>, [BlockStyle EXCEPT !.position = "absolute"]),
       Text(3, <<98>>),
       Text(1, <<99>>) >>

\* <div>x<script>js</script><!-- -->yz</div>
DocScript ==
    << Element("DIV", NULL, <<2, 3, 5, 6>>, BlockStyle),
       Text(1, <<120>>),
       Element("script", 1, <<4>>, [DefaultStyle EXCEPT !.display = DisplayNone]),
       Text(3, <<106, 115>>),
       Comment(1),
       Text(1, <<121, 122>>) >>

\* <ruby>k<rt>ab</rt>j</ruby>
DocRuby ==
    << Element("RUBY", NULL, <<2, 3, 5>>, [DefaultStyle EXCEPT !.display = DisplayRuby]),
       Text(1, <<107>>),
       Element("RT", 1, <<4>>, [DefaultStyle EXCEPT !.display = DisplayRubyText]),
       Text(3, <<97, 98>>),
       Text(1, <<106>>) >>

\* <pre> a\n b</pre>
DocPre ==
    << Element("PRE", NULL, <<2>>, [BlockStyle EXCEPT !.whiteSpace = "pre"]),
       Text(1, <<32, 97, 10, 32, 98>>) >>

\* <p style="white-space:pre-line">a \n b</p>
DocPreLine ==
    << Element("P", NULL, <<2>>, [BlockStyle EXCEPT !.whiteSpace = "pre-line"]),
       Text(1, <<97, 32, 10, 32, 98>>) >>

\* <p>"a "<b>" b"</b><br>" c\n"</p>
DocInline ==
    << Element("P", NULL, <<2, 3, 5, 6>>, BlockStyle),
       Text(1, <<97, 32>>),
       Element("B", 1, <<4>>, DefaultStyle),
       Text(3, <<32, 98>>),
       Element("BR", 1, <<>>, DefaultStyle),
       Text(1, <<32, 99, 10>>) >>

\* <div>a<span style="display:none">h</span><span style="visibility:hidden">i</span>b</div>
DocHidden ==
    << Element("DIV", NULL, <<2, 3, 5, 7>>, BlockStyle),
       Text(1, <<97>>),
       Element("SPAN", 1, <<4>>, [DefaultStyle EXCEPT !.display = DisplayNone]),
       Text(3, <<104>>),
       Element("SPAN", 1, <<6>>, [DefaultStyle EXCEPT !.visibility = "hidden"]),
       Text(5, <<105>>),
       Text(1, <<98>>) >>

\* "a", one code point outside the BMP (a surrogate pair), "b"
DocAstral ==
    << Element("SPAN", NULL, <<2>>, DefaultStyle),
       Text(1, <<97, 55360, 56331, 98>>) >>

\* "a", zero-width space, " ", zero-width non-joiner, "b"
DocZeroWidth ==
    << Element("SPAN", NULL, <<2>>, DefaultStyle),
       Text(1, <<97, 8203, 32, 8204, 98>>) >>

\* <div>a<textarea>t</textarea><div></div>b</div>
DocForm ==
    << Element("DIV", NULL, <<2, 3, 5, 6>>, BlockStyle),
       Text(1, <<97>>),
       Element("TEXTAREA", 1, <<4>>, [DefaultStyle EXCEPT !.display = DisplayInlineBlock]),
       Text(3, <<116>>),
       Element("DIV", 1, <<>>, BlockStyle),
       Text(1, <<98>>) >>

\* <html><head>s</head><style>u</style>t</html>, with head and style shown as
\* blocks by the stylesheet of the page
DocHead ==
    << Element("HTML", NULL, <<2, 4, 6>>, BlockStyle),
       Element("HEAD", 1, <<3>>, BlockStyle),
       Text(2, <<115>>),
       Element("STYLE", 1, <<5>>, BlockStyle),
       Text(4, <<117>>),
       Text(1, <<116>>) >>

Docs ==
    {DocHello, DocSpaces, DocBlocks, DocAbsolute, DocScript, DocRuby, DocPre,
     DocPreLine, DocInline, DocHidden, DocAstral, DocZeroWidth, DocForm, DocHead}

\* -------------------------------------------- documents that vary one style

Displays ==
    {DisplayInline, DisplayBlock, DisplayNone, DisplayRuby, DisplayRubyText,
     DisplayRubyBase, DisplayInlineBlock, DisplayListItem, DisplayBlockFlow,
     DisplayFlex, DisplayInlineFlex, DisplayGrid, DisplayTable, DisplayTableCell,
     DisplayContents, DisplayEmpty}

Positions == {"static", "relative", "absolute", "fixed", "sticky", ""}

Colors == {ColorBlack, ColorTransparent, ColorHalf, ColorUndefined}

\* Every display value with every position.
LayoutStyles ==
    {[DefaultStyle EXCEPT !.display = d, !.position = p] :
        d \in Displays, p \in Positions}

\* visibility, opacity and font-size.
VisibilityStyles ==
    {[DefaultStyle EXCEPT !.visibility = v, !.opacity = o, !.fontSize = f] :
        v \in {"visible", "hidden", "collapse", ""},
        o \in {"1", "0", "0.5", ""},
        f \in {"16px", "0px", "medium"}}

\* The styles that differ from the default in one user-select property.
SelectStyles ==
    {DefaultStyle,
     [DefaultStyle EXCEPT !.userSelect = "none"],
     [DefaultStyle EXCEPT !.webkitUserSelect = "none"],
     [DefaultStyle EXCEPT !.MozUserSelect = "none"],
     [DefaultStyle EXCEPT !.msUserSelect = "none"]}

\* user-select with the text colour and the text fill colour.
ColorStyles ==
    {[u EXCEPT !.color = c, !.webkitTextFillColor = f] :
        u \in SelectStyles, c \in Colors, f \in Colors}

\* One style for each way of being invisible.
InvisibleStyles ==
    {[DefaultStyle EXCEPT !.display = DisplayNone],
     [DefaultStyle EXCEPT !.visibility = "hidden"],
     [DefaultStyle EXCEPT !.opacity = "0"],
     [DefaultStyle EXCEPT !.fontSize = "0px"],
     [DefaultStyle EXCEPT !.userSelect = "none", !.color = ColorTransparent]}

\* Each of them as inline and as block, with every position.
InvisibleLayoutStyles ==
    {[i EXCEPT !.display = IF i.display = DisplayNone THEN DisplayNone ELSE d,
               !.position = p] :
        i \in InvisibleStyles, d \in {DisplayInline, DisplayBlock}, p \in Positions}

\* A style of which nothing can be read: empty strings, and undefined for
\* the properties a browser may not have.
MissingStyle ==
    [display |-> DisplayEmpty, position |-> "", visibility |-> "",
     opacity |-> "", fontSize |-> "", color |-> ColorUndefined,
     webkitTextFillColor |-> ColorUndefined, whiteSpace |-> "",
     userSelect |-> "undefined", webkitUserSelect |-> "undefined",
     MozUserSelect |-> "undefined", msUserSelect |-> "undefined"]

\* A style of values that are no CSS values.
UnparseableStyle ==
    [display |-> << <<"foo">> >>, position |-> "foo", visibility |-> "foo",
     opacity |-> "foo", fontSize |-> "foo", color |-> ColorBlack,
     webkitTextFillColor |-> ColorBlack, whiteSpace |-> "foo",
     userSelect |-> "foo", webkitUserSelect |-> "foo",
     MozUserSelect |-> "foo", msUserSelect |-> "foo"]

\* The elements getElementSeekInfo knows by name, and one it does not.
Tags ==
    {"SPAN", "HEAD", "RT", "SCRIPT", "STYLE", "BR", "TEXTAREA", "INPUT", "BUTTON"}

\* The styles every one of the tags is tried with.
TagStyles ==
    {DefaultStyle, BlockStyle, MissingStyle,
     [DefaultStyle EXCEPT !.position = "absolute"],
     [BlockStyle EXCEPT !.position = "fixed"]} \cup InvisibleStyles

\* <div>a<name style="...">b</name>c</div>
StyleDoc(name, style) ==
    << Element("DIV", NULL, <<2, 3, 5>>, BlockStyle),
       Text(1, <<97>>),
       Element(name, 1, <<4>>, style),
       Text(3, <<98>>),
       Text(1, <<99>>) >>

\* <p style="white-space: ...">(tab)(space)a(form feed)(carriage return)(line
\* feed)b(zero-width space)(zero-width non-joiner)</p>
WhiteSpaceDoc(whiteSpace) ==
    << Element("P", NULL, <<2>>, [BlockStyle EXCEPT !.whiteSpace = whiteSpace]),
       Text(1, <<TAB, SPACE, 97, FF, CR, LF, 98, ZWSP, ZWNJ>>) >>

WhiteSpaces ==
    {"normal", "nowrap", "pre", "pre-wrap", "pre-line", "break-spaces", "", "foo"}

StyleDocs ==
    {StyleDoc("SPAN", style) :
        style \in LayoutStyles \cup VisibilityStyles \cup ColorStyles
                  \cup InvisibleLayoutStyles \cup {MissingStyle, UnparseableStyle}}
    \cup {StyleDoc(name, style) : name \in Tags, style \in TagStyles}
    \cup {WhiteSpaceDoc(whiteSpace) : whiteSpace \in WhiteSpaces}

\* ------------------------------------------------------- the scanner object

\* constructor(node, offset, forcePreserveWhitespace, generateLayoutContent)
constructor(d, node, offset, forcePreserveWhitespace, generateLayoutContent) ==
    LET ruby == getParentRubyElement(d, node)
        resetOffset == (ruby # NULL)
    IN  [node |-> IF resetOffset THEN ruby ELSE node,
         offset |-> offset,
         content |-> <<>>,
         remainder |-> 0,
         resetOffset |-> resetOffset,
         newlines |-> 0,
         lineHasWhitespace |-> FALSE,
         lineHasContent |-> FALSE,
         forcePreserveWhitespace |-> forcePreserveWhitespace,
         generateLayoutContent |-> generateLayoutContent]

\* Mutant of getWhitespaceSettings: forcePreserveWhitespace is not consulted.
getWhitespaceSettings_ForceIgnored(d, t, textNode) ==
    LET element == getParentElement(d, textNode)
        whiteSpace == IF element # NULL
                      THEN getComputedStyle(d, element).whiteSpace
                      ELSE "normal"
    IN  CASE whiteSpace \in {"pre", "pre-wrap", "break-spaces"} ->
                [preserveNewlines |-> TRUE, preserveWhitespace |-> TRUE]
          [] whiteSpace = "pre-line" ->
                [preserveNewlines |-> TRUE, preserveWhitespace |-> FALSE]
          [] OTHER ->
                [preserveNewlines |-> FALSE, preserveWhitespace |-> FALSE]

getWhitespaceSettings(d, t, textNode) ==
    IF t.forcePreserveWhitespace
    THEN [preserveNewlines |-> TRUE, preserveWhitespace |-> TRUE]
    ELSE LET element == getParentElement(d, textNode)
             whiteSpace == IF element # NULL
                           THEN getComputedStyle(d, element).whiteSpace
                           ELSE "normal"
         IN  CASE whiteSpace \in {"pre", "pre-wrap", "break-spaces"} ->
                     [preserveNewlines |-> TRUE, preserveWhitespace |-> TRUE]
               [] whiteSpace = "pre-line" ->
                     [preserveNewlines |-> TRUE, preserveWhitespace |-> FALSE]
               [] OTHER ->
                     [preserveNewlines |-> FALSE, preserveWhitespace |-> FALSE]

\* Mutant of flushNewlinesForward: every pending newline is emitted, without
\* Math.min(this._remainder, this._newlines).
flushNewlinesForward_NoMin(t) ==
    IF Len(t.content) > 0
    THEN [t EXCEPT !.content = @ \o Repeat(LF, t.newlines),
                   !.remainder = @ - t.newlines,
                   !.newlines = 0,
                   !.lineHasContent = FALSE,
                   !.lineHasWhitespace = FALSE]
    ELSE [t EXCEPT !.newlines = 0,
                   !.lineHasContent = FALSE,
                   !.lineHasWhitespace = FALSE]

\* Mutant of flushNewlinesForward: the pending newlines are emitted into an
\* empty content too.
flushNewlinesForward_IntoEmpty(t) ==
    LET useNewlineCount == Min(t.remainder, t.newlines)
    IN  [t EXCEPT !.content = @ \o Repeat(LF, useNewlineCount),
                  !.remainder = @ - useNewlineCount,
                  !.newlines = @ - useNewlineCount,
                  !.lineHasContent = FALSE,
                  !.lineHasWhitespace = FALSE]

\* The pending newlines met by a significant character, forward: emitted after
\* a non-empty content, dropped before an empty one; the line flags reset.
flushNewlinesForward(t) ==
    LET useNewlineCount == Min(t.remainder, t.newlines)
    IN  IF Len(t.content) > 0
        THEN [t EXCEPT !.content = @ \o Repeat(LF, useNewlineCount),
                       !.remainder = @ - useNewlineCount,
                       !.newlines = @ - useNewlineCount,
                       !.lineHasContent = FALSE,
                       !.lineHasWhitespace = FALSE]
        ELSE [t EXCEPT !.newlines = 0,
                       !.lineHasContent = FALSE,
                       !.lineHasWhitespace = FALSE]

\* Mutant of flushNewlinesBackward: the pending newlines that the length
\* leaves no room for are dropped.
flushNewlinesBackward_DropLeftover(t) ==
    LET useNewlineCount == Min(t.remainder, t.newlines)
    IN  IF Len(t.content) > 0
        THEN [t EXCEPT !.content = Repeat(LF, useNewlineCount) \o @,
                       !.remainder = @ - useNewlineCount,
                       !.newlines = 0,
                       !.lineHasContent = FALSE,
                       !.lineHasWhitespace = FALSE]
        ELSE [t EXCEPT !.newlines = 0,
                       !.lineHasContent = FALSE,
                       !.lineHasWhitespace = FALSE]

flushNewlinesBackward(t) ==
    LET useNewlineCount == Min(t.remainder, t.newlines)
    IN  IF Len(t.content) > 0
        THEN [t EXCEPT !.content = Repeat(LF, useNewlineCount) \o @,
                       !.remainder = @ - useNewlineCount,
                       !.newlines = @ - useNewlineCount,
                       !.lineHasContent = FALSE,
                       !.lineHasWhitespace = FALSE]
        ELSE [t EXCEPT !.newlines = 0,
                       !.lineHasContent = FALSE,
                       !.lineHasWhitespace = FALSE]

\* Mutant of emitCharacterForward: the length test is off by one
\* (--remainder < 0).
emitCharacterForward_OffByOne(t, char) ==
    LET t1 == [t EXCEPT !.content = @ \o char, !.remainder = @ - 1]
    IN  [this |-> t1, ret |-> t1.remainder < 0]

\* Mutant of emitCharacterBackward: the character is appended, as in the
\* forward scan, instead of prepended.
emitCharacterBackward_Append(t, char) ==
    LET t1 == [t EXCEPT !.content = @ \o char, !.remainder = @ - 1]
    IN  [this |-> t1, ret |-> t1.remainder <= 0]

\* content += char; return --remainder <= 0
emitCharacterForward(t, char) ==
    LET t1 == [t EXCEPT !.content = @ \o char, !.remainder = @ - 1]
    IN  [this |-> t1, ret |-> t1.remainder <= 0]

emitCharacterBackward(t, char) ==
    LET t1 == [t EXCEPT !.content = char \o @, !.remainder = @ - 1]
    IN  [this |-> t1, ret |-> t1.remainder <= 0]

\* Mutant of collapseWhitespaceForward: the pending whitespace becomes a space
\* whether or not the character that meets it is a newline.
collapseWhitespaceForward_AlwaysSpace(t, char) ==
    IF t.lineHasWhitespace
    THEN LET t1 == [t EXCEPT !.content = @ \o <<SPACE>>,
                             !.lineHasWhitespace = FALSE,
                             !.remainder = @ - 1]
         IN  IF t1.remainder <= 0
             THEN [this |-> [t1 EXCEPT !.offset = @ - Len(char)], ret |-> TRUE]
             ELSE emitCharacterForward(t1, char)
    ELSE emitCharacterForward(t, char)

\* The pending whitespace of the line met by a significant character, forward:
\* one space when lineHasContent, nothing otherwise; then the character.
collapseWhitespaceForward(t, char) ==
    IF t.lineHasWhitespace
    THEN IF t.lineHasContent
         THEN LET t1 == [t EXCEPT !.content = @ \o <<SPACE>>,
                                  !.lineHasWhitespace = FALSE,
                                  !.remainder = @ - 1]
              IN  IF t1.remainder <= 0
                  THEN [this |-> [t1 EXCEPT !.offset = @ - Len(char)], ret |-> TRUE]
                  ELSE emitCharacterForward(t1, char)
         ELSE emitCharacterForward([t EXCEPT !.lineHasWhitespace = FALSE], char)
    ELSE emitCharacterForward(t, char)

\* Mutant of collapseWhitespaceBackward: the space is appended, as in the
\* forward scan, instead of prepended.
collapseWhitespaceBackward_Append(t, char) ==
    IF t.lineHasWhitespace
    THEN IF t.lineHasContent
         THEN LET t1 == [t EXCEPT !.content = @ \o <<SPACE>>,
                                  !.lineHasWhitespace = FALSE,
                                  !.remainder = @ - 1]
              IN  IF t1.remainder <= 0
                  THEN [this |-> [t1 EXCEPT !.offset = @ + Len(char)], ret |-> TRUE]
                  ELSE emitCharacterBackward(t1, char)
         ELSE emitCharacterBackward([t EXCEPT !.lineHasWhitespace = FALSE], char)
    ELSE emitCharacterBackward(t, char)

collapseWhitespaceBackward(t, char) ==
    IF t.lineHasWhitespace
    THEN IF t.lineHasContent
         THEN LET t1 == [t EXCEPT !.content = <<SPACE>> \o @,
                                  !.lineHasWhitespace = FALSE,
                                  !.remainder = @ - 1]
              IN  IF t1.remainder <= 0
                  THEN [this |-> [t1 EXCEPT !.offset = @ + Len(char)], ret |-> TRUE]
                  ELSE emitCharacterBackward(t1, char)
         ELSE emitCharacterBackward([t EXCEPT !.lineHasWhitespace = FALSE], char)
    ELSE emitCharacterBackward(t, char)

\* Mutant of checkCharacterForward: the offset is not reverted when the
\* length is reached by the pending newlines.
checkCharacterForward_NoRevert(t, char, charAttributes) ==
    CASE charAttributes = 1 ->
            [this |-> [t EXCEPT !.lineHasWhitespace = TRUE], ret |-> FALSE]
      [] charAttributes \in {2, 3} ->
            LET t1 == IF t.newlines > 0 THEN flushNewlinesForward(t) ELSE t
            IN  IF t.newlines > 0 /\ t1.remainder <= 0
                THEN [this |-> t1, ret |-> TRUE]
                ELSE collapseWhitespaceForward(
                         [t1 EXCEPT !.lineHasContent = (charAttributes = 2)], char)
      [] OTHER -> [this |-> t, ret |-> FALSE]

\* Mutant of checkCharacterForward: an ignorable character ends the
\* whitespace run before it.
checkCharacterForward_IgnorableBreaksRun(t, char, charAttributes) ==
    CASE charAttributes = 1 ->
            [this |-> [t EXCEPT !.lineHasWhitespace = TRUE], ret |-> FALSE]
      [] charAttributes \in {2, 3} ->
            LET t1 == IF t.newlines > 0 THEN flushNewlinesForward(t) ELSE t
            IN  IF t.newlines > 0 /\ t1.remainder <= 0
                THEN [this |-> [t1 EXCEPT !.offset = @ - Len(char)], ret |-> TRUE]
                ELSE collapseWhitespaceForward(
                         [t1 EXCEPT !.lineHasContent = (charAttributes = 2)], char)
      [] OTHER -> [this |-> [t EXCEPT !.lineHasWhitespace = FALSE], ret |-> FALSE]

\* _checkCharacterForward(char, charAttributes): the cursor after the
\* character and whether the scan length has been reached.
checkCharacterForward(t, char, charAttributes) ==
    CASE charAttributes = 1 ->
            [this |-> [t EXCEPT !.lineHasWhitespace = TRUE], ret |-> FALSE]
      [] charAttributes \in {2, 3} ->
            LET t1 == IF t.newlines > 0 THEN flushNewlinesForward(t) ELSE t
            IN  IF t.newlines > 0 /\ t1.remainder <= 0
                THEN [this |-> [t1 EXCEPT !.offset = @ - Len(char)], ret |-> TRUE]
                ELSE collapseWhitespaceForward(
                         [t1 EXCEPT !.lineHasContent = (charAttributes = 2)], char)
      [] OTHER -> [this |-> t, ret |-> FALSE]

checkCharacterBackward(t, char, charAttributes) ==
    CASE charAttributes = 1 ->
            [this |-> [t EXCEPT !.lineHasWhitespace = TRUE], ret |-> FALSE]
      [] charAttributes \in {2, 3} ->
            LET t1 == IF t.newlines > 0 THEN flushNewlinesBackward(t) ELSE t
            IN  IF t.newlines > 0 /\ t1.remainder <= 0
                THEN [this |-> [t1 EXCEPT !.offset = @ + Len(char)], ret |-> TRUE]
                ELSE collapseWhitespaceBackward(
                         [t1 EXCEPT !.lineHasContent = (charAttributes = 2)], char)
      [] OTHER -> [this |-> t, ret |-> FALSE]

RECURSIVE scanTextForward(_, _, _, _)
\* while (this._offset < nodeValueLength) { ... } of _seekTextNodeForward
scanTextForward(t, nodeValue, preserveNewlines, preserveWhitespace) ==
    IF t.offset < Len(nodeValue)
    THEN LET char == readCodePointsForward(nodeValue, t.offset)
             t1 == [t EXCEPT !.offset = @ + Len(char)]
             charAttributes ==
                 getCharacterAttributes(char, preserveNewlines, preserveWhitespace)
             r == checkCharacterForward(t1, char, charAttributes)
         IN  IF r.ret THEN r.this
             ELSE scanTextForward(r.this, nodeValue, preserveNewlines, preserveWhitespace)
    ELSE t

RECURSIVE scanTextBackward(_, _, _, _)
\* while (this._offset > 0) { ... } of _seekTextNodeBackward
scanTextBackward(t, nodeValue, preserveNewlines, preserveWhitespace) ==
    IF t.offset > 0
    THEN LET char == readCodePointsBackward(nodeValue, t.offset - 1)
             t1 == [t EXCEPT !.offset = @ - Len(char)]
             charAttributes ==
                 getCharacterAttributes(char, preserveNewlines, preserveWhitespace)
             r == checkCharacterBackward(t1, char, charAttributes)
         IN  IF r.ret THEN r.this
             ELSE scanTextBackward(r.this, nodeValue, preserveNewlines, preserveWhitespace)
    ELSE t

\* Mutant of seekTextNodeForward: the scan is told to continue also when the
\* length has been reached (remainder >= 0).
seekTextNodeForward_NeverDone(d, t, textNode, resetOffset) ==
    LET nodeValue == d[textNode].nodeValue
        ws == getWhitespaceSettings(d, t, textNode)
        t0 == IF resetOffset THEN [t EXCEPT !.offset = 0] ELSE t
        t1 == scanTextForward(t0, nodeValue, ws.preserveNewlines, ws.preserveWhitespace)
    IN  [this |-> t1, ret |-> t1.remainder >= 0]

\* Mutant of seekTextNodeBackward: the offset is reset to the end of the text
\* whatever resetOffset says.
seekTextNodeBackward_AlwaysReset(d, t, textNode, resetOffset) ==
    LET nodeValue == d[textNode].nodeValue
        ws == getWhitespaceSettings(d, t, textNode)
        t0 == [t EXCEPT !.offset = Len(nodeValue)]
        t1 == scanTextBackward(t0, nodeValue, ws.preserveNewlines, ws.preserveWhitespace)
    IN  [this |-> t1, ret |-> t1.remainder > 0]

\* _seekTextNodeForward(textNode, resetOffset): ret is TRUE if scanning
\* should continue, FALSE if the scan length has been reached.
seekTextNodeForward(d, t, textNode, resetOffset) ==
    LET nodeValue == d[textNode].nodeValue
        ws == getWhitespaceSettings(d, t, textNode)
        t0 == IF resetOffset THEN [t EXCEPT !.offset = 0] ELSE t
        t1 == scanTextForward(t0, nodeValue, ws.preserveNewlines, ws.preserveWhitespace)
    IN  [this |-> t1, ret |-> t1.remainder > 0]

seekTextNodeBackward(d, t, textNode, resetOffset) ==
    LET nodeValue == d[textNode].nodeValue
        ws == getWhitespaceSettings(d, t, textNode)
        t0 == IF resetOffset THEN [t EXCEPT !.offset = Len(nodeValue)] ELSE t
        t1 == scanTextBackward(t0, nodeValue, ws.preserveNewlines, ws.preserveWhitespace)
    IN  [this |-> t1, ret |-> t1.remainder > 0]

\* Mutant of raiseNewlines: the newlines of a boundary are added to the pending
\* ones instead of raising them to the larger count.
raiseNewlines_Accumulate(t, newlines) ==
    IF t.generateLayoutContent
    THEN [t EXCEPT !.newlines = @ + newlines]
    ELSE t

\* Mutant of raiseNewlines: generateLayoutContent is not consulted.
raiseNewlines_IgnoreFlag(t, newlines) ==
    IF newlines > t.newlines
    THEN [t EXCEPT !.newlines = newlines]
    ELSE t

\* Mutant of raiseNewlines: the pending count becomes the count of the
\* element, also when that is lower.
raiseNewlines_Assign(t, newlines) ==
    IF t.generateLayoutContent
    THEN [t EXCEPT !.newlines = newlines]
    ELSE t

\* if (newlines > this._newlines && generateLayoutContent) this._newlines = newlines
raiseNewlines(t, newlines) ==
    IF newlines > t.newlines /\ t.generateLayoutContent
    THEN [t EXCEPT !.newlines = newlines]
    ELSE t

\* Mutant of exitNodes: the exited nodes are not looked at.
exitNodes_Skip(d, t, exitedNodes) == t

RECURSIVE exitNodes(_, _, _)
\* for (const exitedNode of exitedNodes) { ... } of seek
exitNodes(d, t, exitedNodes) ==
    IF exitedNodes = <<>> THEN t
    ELSE LET exitedNode == Head(exitedNodes)
             t1 == IF d[exitedNode].nodeType # ELEMENT_NODE THEN t
                   ELSE raiseNewlines(t, getElementSeekInfo(d, exitedNode).newlines)
         IN  exitNodes(d, t1, Tail(exitedNodes))

\* Mutant of seekEnter: no early return for length === 0.
seekEnter_NoEarlyReturn(t, length) ==
    LET forward == (length >= 0)
        t1 == [t EXCEPT !.remainder = IF forward THEN length ELSE -length]
    IN  [this |-> t1,
         frame |-> [pc |-> "loop", node |-> t.node, lastNode |-> t.node,
                    resetOffset |-> t.resetOffset, forward |-> forward,
                    exit |-> "none"]]

\* seek(length) up to its loop: the cursor, and the locals of the call
\* (pc "idle": the call has returned).
seekEnter(t, length) ==
    LET forward == (length >= 0)
        t1 == [t EXCEPT !.remainder = IF forward THEN length ELSE -length]
    IN  IF length = 0
        THEN [this |-> t1,
              frame |-> [pc |-> "idle", node |-> NULL, lastNode |-> NULL,
                         resetOffset |-> FALSE, forward |-> forward, exit |-> "zero"]]
        ELSE [this |-> t1,
              frame |-> [pc |-> "loop", node |-> t.node, lastNode |-> t.node,
                         resetOffset |-> t.resetOffset, forward |-> forward,
                         exit |-> "none"]]

\* Mutant of seekLoopBody: only a text node becomes lastNode, an element
\* does not.
seekLoopBody_TextOnlyLast(d, t, f) ==
    LET node == f.node
        isText == (d[node].nodeType = TEXT_NODE)
        isElement == (d[node].nodeType = ELEMENT_NODE)
        lastNode == IF isText THEN node ELSE f.lastNode
        r == IF ~isText THEN [this |-> t, ret |-> TRUE]
             ELSE IF f.forward THEN seekTextNodeForward(d, t, node, f.resetOffset)
             ELSE seekTextNodeBackward(d, t, node, f.resetOffset)
    IN  IF ~r.ret
        THEN [this |-> r.this,
              frame |-> [f EXCEPT !.lastNode = lastNode, !.pc = "return",
                                  !.exit = "break"]]
        ELSE LET info == IF isElement THEN getElementSeekInfo(d, node)
                         ELSE [enterable |-> FALSE, newlines |-> 0]
                 t1 == IF isElement
                       THEN raiseNewlines([r.this EXCEPT !.offset = 0], info.newlines)
                       ELSE r.this
                 nx == getNextNode(d, node, f.forward, info.enterable)
                 t2 == exitNodes(d, t1, nx.exitedNodes)
             IN  [this |-> t2,
                  frame |-> [f EXCEPT !.node = nx.next,
                                      !.lastNode = lastNode,
                                      !.resetOffset = TRUE,
                                      !.pc = IF nx.next = NULL THEN "return" ELSE "loop",
                                      !.exit = IF nx.next = NULL THEN "null" ELSE "none"]]

\* One iteration of while (node !== null) of seek; exit records how the loop
\* was left: by break ("break") or by node === null ("null").
seekLoopBody(d, t, f) ==
    LET node == f.node
        isText == (d[node].nodeType = TEXT_NODE)
        isElement == (d[node].nodeType = ELEMENT_NODE)
        lastNode == IF isText \/ isElement THEN node ELSE f.lastNode
        r == IF ~isText THEN [this |-> t, ret |-> TRUE]
             ELSE IF f.forward THEN seekTextNodeForward(d, t, node, f.resetOffset)
             ELSE seekTextNodeBackward(d, t, node, f.resetOffset)
    IN  IF ~r.ret
        THEN [this |-> r.this,
              frame |-> [f EXCEPT !.lastNode = lastNode, !.pc = "return",
                                  !.exit = "break"]]
        ELSE LET info == IF isElement THEN getElementSeekInfo(d, node)
                         ELSE [enterable |-> FALSE, newlines |-> 0]
                 t1 == IF isElement
                       THEN raiseNewlines([r.this EXCEPT !.offset = 0], info.newlines)
                       ELSE r.this
                 nx == getNextNode(d, node, f.forward, info.enterable)
                 t2 == exitNodes(d, t1, nx.exitedNodes)
             IN  [this |-> t2,
                  frame |-> [f EXCEPT !.node = nx.next,
                                      !.lastNode = lastNode,
                                      !.resetOffset = TRUE,
                                      !.pc = IF nx.next = NULL THEN "return" ELSE "loop",
                                      !.exit = IF nx.next = NULL THEN "null" ELSE "none"]]

\* Mutant of seekReturn: the end of seek also clears generateLayoutContent.
seekReturn_ClearsLayoutFlag(t, f) ==
    [this |-> [t EXCEPT !.node = f.lastNode, !.resetOffset = f.resetOffset,
                        !.generateLayoutContent = FALSE],
     frame |-> [f EXCEPT !.pc = "idle"]]

\* The end of seek: this._node = lastNode; this._resetOffset = resetOffset
seekReturn(t, f) ==
    [this |-> [t EXCEPT !.node = f.lastNode, !.resetOffset = f.resetOffset],
     frame |-> [f EXCEPT !.pc = "idle"]]

RECURSIVE seekRun(_, _, _)
\* The loop of seek run to its end.
seekRun(d, t, f) ==
    IF f.pc = "loop" THEN LET s == seekLoopBody(d, t, f) IN seekRun(d, s.this, s.frame)
    ELSE IF f.pc = "return" THEN seekReturn(t, f)
    ELSE [this |-> t, frame |-> f]

\* seek(length) as one function of the cursor.
seek(d, t, length) ==
    LET s == seekEnter(t, length) IN seekRun(d, s.this, s.frame).this

\* ------------------------------------------------------------ state machine

\* ------------------------------------------------------------ DisplayAnki

\* Calls of _updateDictionaryEntryDetails in one run.
MaxUpdates == 3

\* What display.dictionaryEntries may hold when a call reads it: lists of
\* dictionary entries, each given by its type.
DictionaryEntryLists == {<<>>, <<"term">>, <<"kanji", "term">>}

\* this._dictionaryEntryTypeModeMap.get(type)
dictionaryEntryTypeModeMap(type) ==
    IF type = "kanji" THEN {"kanji"} ELSE {"term-kanji", "term-kana"}

\* null as the value of _dictionaryEntryDetails: the array of no request.
NoDetails == [request |-> NULL, modeMaps |-> <<>>]

\* The fields of a DisplayAnki after construction that the update of the
\* dictionary entry details reads and writes.  adderButtons stands for the
\* buttons of the entries in the page: for each entry, the modes whose
\* button is enabled.
DisplayAnkiConstructor ==
    [updateAdderButtonsPromise |-> NULL,
     updateDictionaryEntryDetailsToken |-> NULL,
     dictionaryEntryDetails |-> NoDetails,
     adderButtons |-> <<>>]

\* _onContentClear()
onContentClear(a) ==
    [a EXCEPT !.updateDictionaryEntryDetailsToken = NULL,
              !.dictionaryEntryDetails = NoDetails]

\* The array _getDictionaryEntryDetails(dictionaryEntries) resolves with: a
\* new array for each request, with one mode map for each entry, canAdd
\* being what Anki answered.
getDictionaryEntryDetails(request, dictionaryEntries, canAdd) ==
    [request |-> request,
     modeMaps |-> [i \in 1..Len(dictionaryEntries) |->
                     [mode \in dictionaryEntryTypeModeMap(dictionaryEntries[i]) |-> canAdd]]]

\* _updateAdderButtons(dictionaryEntryDetails): button.disabled = !canAdd.
updateAdderButtons(dictionaryEntryDetails) ==
    [i \in 1..Len(dictionaryEntryDetails.modeMaps) |->
        {mode \in DOMAIN dictionaryEntryDetails.modeMaps[i] :
            dictionaryEntryDetails.modeMaps[i][mode]}]

\* The locals of a call of _updateDictionaryEntryDetails that has not been
\* made yet.  A token is the number of its call and a deferred promise the
\* number of the call that created it; resolved tells whether the promise of
\* the call has been resolved.
NotCalled ==
    [pc |-> "start", dictionaryEntries |-> <<>>, awaited |-> NULL, resolved |-> FALSE]

\* _updateDictionaryEntryDetails from the test of the token after the wait
\* up to await this._getDictionaryEntryDetails(dictionaryEntries).
updateDictionaryEntryDetailsRequest(a, token, f) ==
    IF a.updateDictionaryEntryDetailsToken # token
    THEN [this |-> a, frame |-> [f EXCEPT !.pc = "done"]]
    ELSE [this |-> [a EXCEPT !.updateAdderButtonsPromise = token],
          frame |-> [f EXCEPT !.pc = "getDictionaryEntryDetails"]]

\* _updateDictionaryEntryDetails from its call up to its first await.
updateDictionaryEntryDetailsEnter(a, token, dictionaryEntries) ==
    LET a1 == [a EXCEPT !.updateDictionaryEntryDetailsToken = token]
        f == [NotCalled EXCEPT !.dictionaryEntries = dictionaryEntries]
    IN  IF a.updateAdderButtonsPromise # NULL
        THEN [this |-> a1,
              frame |-> [f EXCEPT !.pc = "updateAdderButtonsPromise",
                                  !.awaited = a.updateAdderButtonsPromise]]
        ELSE updateDictionaryEntryDetailsRequest(a1, token, f)

\* Mutant of updateDictionaryEntryDetailsSettle: the details are written
\* without the second test of the token.
updateDictionaryEntryDetailsSettle_NoTokenTest(a, token, f, threw, canAdd) ==
    LET details == getDictionaryEntryDetails(token, f.dictionaryEntries, canAdd)
        a1 == IF threw
              THEN a
              ELSE [a EXCEPT !.dictionaryEntryDetails = details,
                             !.adderButtons = updateAdderButtons(details)]
        a2 == IF a1.updateAdderButtonsPromise = token
              THEN [a1 EXCEPT !.updateAdderButtonsPromise = NULL]
              ELSE a1
    IN  [this |-> a2, frame |-> [f EXCEPT !.pc = "done", !.resolved = TRUE]]

\* Mutant of updateDictionaryEntryDetailsSettle: the promise is resolved but
\* stays in this._updateAdderButtonsPromise.
updateDictionaryEntryDetailsSettle_KeepPromise(a, token, f, threw, canAdd) ==
    LET details == getDictionaryEntryDetails(token, f.dictionaryEntries, canAdd)
        a1 == IF threw \/ a.updateDictionaryEntryDetailsToken # token
              THEN a
              ELSE [a EXCEPT !.dictionaryEntryDetails = details,
                             !.adderButtons = updateAdderButtons(details)]
    IN  [this |-> a1, frame |-> [f EXCEPT !.pc = "done", !.resolved = TRUE]]

\* _updateDictionaryEntryDetails from the settling of the request to its
\* end: the test of the token and the two writes when the request resolved,
\* and the finally block in either case.
updateDictionaryEntryDetailsSettle(a, token, f, threw, canAdd) ==
    LET details == getDictionaryEntryDetails(token, f.dictionaryEntries, canAdd)
        a1 == IF threw \/ a.updateDictionaryEntryDetailsToken # token
              THEN a
              ELSE [a EXCEPT !.dictionaryEntryDetails = details,
                             !.adderButtons = updateAdderButtons(details)]
        a2 == IF a1.updateAdderButtonsPromise = token
              THEN [a1 EXCEPT !.updateAdderButtonsPromise = NULL]
              ELSE a1
    IN  [this |-> a2, frame |-> [f EXCEPT !.pc = "done", !.resolved = TRUE]]

\* ---------------------------------------------------------------- Display

\* Calls of _onStateChanged in one run.
MaxRenders == 2

\* The options contexts a history state may carry; the first is the one the
\* display is constructed with.
OptionsContexts == {1, 2}

\* The fields of a Display after construction that the setting of content
\* reads and writes.  A token is the number of its call of _onStateChanged;
\* options is the options context the options were fetched for; container
\* holds the entry nodes appended to #dictionary-entries; triggered counts
\* the events triggered so far.
DisplayConstructor ==
    [setContentToken |-> NULL,
     historyChangeIgnore |-> FALSE,
     dictionaryEntries |-> <<>>,
     dictionaryEntryNodes |-> <<>>,
     container |-> <<>>,
     optionsContext |-> 1,
     options |-> NULL,
     contentType |-> "clear",
     triggered |-> [contentClear |-> 0, contentUpdateStart |-> 0,
                    contentUpdateEntry |-> 0, contentUpdateComplete |-> 0]]

\* this.trigger(event, ...)
trigger(d, event) == [d EXCEPT !.triggered[event] = @ + 1]

\* The locals of a call of _onStateChanged, and of the call of
\* _setContentTermsOrKanji it makes, before the call is made.  updating tells
\* whether _setOptionsContextIfDifferent has called updateOptions, and
\* requested the options context the pending optionsGet was called with.
NotStarted ==
    [pc |-> "start", dictionaryEntries |-> <<>>, changeHistory |-> FALSE,
     optionsContext |-> 1, updating |-> FALSE, requested |-> NULL, i |-> 0]

\* _replaceHistoryStateNoNavigate(state, content): the stateChanged event of
\* history.replaceState calls _onStateChanged, which returns at once because
\* _historyChangeIgnore is set.
replaceHistoryStateNoNavigate(d) ==
    LET ignoring == [d EXCEPT !.historyChangeIgnore = TRUE]
        replaced == IF ignoring.historyChangeIgnore
                    THEN ignoring
                    ELSE [ignoring EXCEPT !.setContentToken = NULL]
    IN  [replaced EXCEPT !.historyChangeIgnore = d.historyChangeIgnore]

\* updateOptions() after await yomitan.api.optionsGet(...).
updateOptionsReturn(d, options) ==
    trigger(trigger([d EXCEPT !.options = options],
                    "contentUpdateStart"),
            "contentUpdateComplete")

\* The body of the loop over the dictionary entries for index f.i, after the
\* wait and the test at its start.
appendEntry(d, f) ==
    LET entry == [index |-> f.i, dictionaryEntry |-> f.dictionaryEntries[f.i + 1]]
        pushed == [d EXCEPT !.dictionaryEntryNodes = Append(@, entry)]
        told == trigger(pushed, "contentUpdateEntry")
    IN  [told EXCEPT !.container = Append(@, entry)]

\* _setContentTermsOrKanji from the body of the loop for index f.i up to the
\* next await promiseTimeout(1), or to its end.
setContentLoop(d, f) ==
    IF f.i >= Len(f.dictionaryEntries)
    THEN [this |-> trigger(d, "contentUpdateComplete"),
          frame |-> [f EXCEPT !.pc = "done"]]
    ELSE LET appended == appendEntry(d, f)
             next == [f EXCEPT !.i = @ + 1]
         IN  IF next.i < Len(f.dictionaryEntries)
             THEN [this |-> appended, frame |-> [next EXCEPT !.pc = "promiseTimeout"]]
             ELSE [this |-> trigger(appended, "contentUpdateComplete"),
                   frame |-> [next EXCEPT !.pc = "done"]]

\* _setContentTermsOrKanji after await promiseTimeout(1).
promiseTimeoutReturn(d, token, f) ==
    IF d.setContentToken # token
    THEN [this |-> d, frame |-> [f EXCEPT !.pc = "done"]]
    ELSE setContentLoop(d, f)

\* _setContentTermsOrKanji from if (changeHistory) up to the first
\* await promiseTimeout(1), or to its end.
setContentRender(d, f) ==
    LET replaced == IF f.changeHistory THEN replaceHistoryStateNoNavigate(d) ELSE d
        assigned == [replaced EXCEPT !.dictionaryEntries = f.dictionaryEntries,
                                     !.container = <<>>]
    IN  setContentLoop(trigger(assigned, "contentUpdateStart"), [f EXCEPT !.i = 0])

\* _setContentTermsOrKanji after await this.updateOptions(), in which
\* optionsGet resolved or threw.
updateOptionsSettled(d, token, f, threw) ==
    IF threw
    THEN [this |-> d, frame |-> [f EXCEPT !.pc = "done"]]
    ELSE LET updated == updateOptionsReturn(d, f.requested)
         IN  IF updated.setContentToken # token
             THEN [this |-> updated, frame |-> [f EXCEPT !.pc = "done"]]
             ELSE setContentRender(updated, f)

\* _setContentTermsOrKanji after await this._setOptionsContextIfDifferent(
\* optionsContext), in which optionsGet, if it was called, resolved or threw,
\* up to the next await.
setOptionsContextIfDifferentSettled(d, token, f, threw) ==
    IF threw
    THEN [this |-> d, frame |-> [f EXCEPT !.pc = "done"]]
    ELSE LET updated == IF f.updating THEN updateOptionsReturn(d, f.requested) ELSE d
         IN  IF updated.setContentToken # token
             THEN [this |-> updated, frame |-> [f EXCEPT !.pc = "done"]]
             ELSE IF updated.options = NULL
                  THEN [this |-> updated,
                        frame |-> [f EXCEPT !.pc = "updateOptions",
                                            !.requested = updated.optionsContext]]
                  ELSE setContentRender(updated, f)

\* _setContentTermsOrKanji from the content origin up to
\* await this._setOptionsContextIfDifferent(optionsContext): the callee sets
\* the options context and calls updateOptions if the context differs.
setContentOptions(d, f) ==
    IF d.optionsContext = f.optionsContext
    THEN [this |-> d,
          frame |-> [f EXCEPT !.pc = "setOptionsContextIfDifferent", !.updating = FALSE]]
    ELSE [this |-> [d EXCEPT !.optionsContext = f.optionsContext],
          frame |-> [f EXCEPT !.pc = "setOptionsContextIfDifferent",
                              !.updating = TRUE,
                              !.requested = f.optionsContext]]

\* _setContentTermsOrKanji after await this._findDictionaryEntries(...),
\* which resolved with dictionaryEntries or threw.
findDictionaryEntriesSettled(d, token, f, threw, dictionaryEntries) ==
    IF threw \/ d.setContentToken # token
    THEN [this |-> d, frame |-> [f EXCEPT !.pc = "done"]]
    ELSE setContentOptions(d, [f EXCEPT !.dictionaryEntries = dictionaryEntries,
                                        !.changeHistory = TRUE])

\* _setContentTermsOrKanji(type, urlSearchParams, token) up to its first
\* await.  cached: the content of the history entry holds an array of
\* dictionary entries; lookup: the lookup parameter is not 'false' and the
\* query is not empty; optionsContext: that of the history state, NULL if it
\* has none; originValid: the content holds a content origin.
setContentTermsOrKanji(d, token, cached, dictionaryEntries, lookup, optionsContext, originValid) ==
    LET f == [NotStarted EXCEPT
                 !.changeHistory = (optionsContext = NULL) \/ ~originValid,
                 !.optionsContext = IF optionsContext = NULL
                                    THEN d.optionsContext
                                    ELSE optionsContext]
    IN  IF cached
        THEN setContentOptions(d, [f EXCEPT !.dictionaryEntries = dictionaryEntries])
        ELSE IF lookup
             THEN [this |-> d, frame |-> [f EXCEPT !.pc = "findDictionaryEntries"]]
             ELSE findDictionaryEntriesSettled(d, token, f, FALSE, <<>>)

\* _setContentExtensionUnloaded() and _clearContent(), of which the second
\* empties the container.
setContentWithoutEntries(d, type) ==
    LET emptied == IF type = "unloaded" THEN d ELSE [d EXCEPT !.container = <<>>]
    IN  trigger(trigger(emptied, "contentUpdateStart"), "contentUpdateComplete")

\* _onStateChanged() up to its first await.
onStateChanged(d, token, type, cached, dictionaryEntries, lookup, optionsContext, originValid) ==
    IF d.historyChangeIgnore
    THEN [this |-> d, frame |-> [NotStarted EXCEPT !.pc = "done"]]
    ELSE LET cleared == [trigger([d EXCEPT !.setContentToken = token], "contentClear")
                            EXCEPT !.dictionaryEntries = <<>>,
                                   !.dictionaryEntryNodes = <<>>]
         IN  IF type \in {"terms", "kanji"}
             THEN setContentTermsOrKanji([cleared EXCEPT !.contentType = type], token, cached,
                                         dictionaryEntries, lookup, optionsContext, originValid)
             ELSE IF type = "unloaded"
                  THEN [this |-> setContentWithoutEntries(
                                     [cleared EXCEPT !.contentType = type], type),
                        frame |-> [NotStarted EXCEPT !.pc = "done"]]
                  ELSE [this |-> setContentWithoutEntries(
                                     [cleared EXCEPT !.contentType = "clear"], "clear"),
                        frame |-> [NotStarted EXCEPT !.pc = "done"]]

VARIABLES
    dom,          \* the document the cursor scans
    ctor,         \* the arguments the cursor was constructed with
    this,         \* the DOMTextScanner object
    frame,        \* the locals of the seek call in progress and its position
    calls,        \* the seek calls made so far: length, and the cursor at the call
    displayAnki,  \* the DisplayAnki object
    updates,      \* the locals and position of each call of _updateDictionaryEntryDetails
    theDisplay,      \* the Display object
    renders       \* the locals and position of each call of _onStateChanged

vars == <<dom, ctor, this, frame, calls, displayAnki, updates, theDisplay, renders>>

\* No call of _onStateChanged is made.
NoRender ==
    /\ theDisplay = DisplayConstructor
    /\ renders = [c \in 1..MaxRenders |-> NotStarted]

\* No call of _updateDictionaryEntryDetails is made.
NoUpdate ==
    /\ displayAnki = DisplayAnkiConstructor
    /\ updates = [c \in 1..MaxUpdates |-> NotCalled]

Lengths == (-MaxLen)..MaxLen

\* Lengths beyond MaxLen that the first seek of a cursor may also take: the
\* seek(7) that reads "foo" and "bar" with the newline between them.
ExampleLengths == {7}

CallLengths == IF calls = <<>> THEN Lengths \cup ExampleLengths ELSE Lengths

StartOffsets(d, node) ==
    IF d[node].nodeType = TEXT_NODE THEN 0..Len(d[node].nodeValue) ELSE {0}

IdleFrame ==
    [pc |-> "idle", node |-> NULL, lastNode |-> NULL, resetOffset |-> FALSE,
     forward |-> TRUE, exit |-> "none"]

Init ==
    /\ dom \in Docs
    /\ \E node \in 1..Len(dom) : \E offset \in StartOffsets(dom, node) :
       \E fpw \in BOOLEAN : \E glc \in BOOLEAN :
          /\ ctor = [node |-> node, offset |-> offset]
          /\ this = constructor(dom, node, offset, fpw, glc)
    /\ frame = IdleFrame
    /\ calls = <<>>
    /\ NoUpdate
    /\ NoRender

SeekCall(length) ==
    /\ frame.pc = "idle"
    /\ Len(calls) < MaxSeeks
    /\ LET s == seekEnter(this, length)
       IN  /\ this' = s.this
           /\ frame' = s.frame
    /\ calls' = Append(calls, [length |-> length, before |-> this])
    /\ UNCHANGED <<dom, ctor, displayAnki, updates, theDisplay, renders>>

SeekLoop ==
    /\ frame.pc = "loop"
    /\ LET s == seekLoopBody(dom, this, frame)
       IN  /\ this' = s.this
           /\ frame' = s.frame
    /\ UNCHANGED <<dom, ctor, calls, displayAnki, updates, theDisplay, renders>>

SeekReturn ==
    /\ frame.pc = "return"
    /\ LET s == seekReturn(this, frame)
       IN  /\ this' = s.this
           /\ frame' = s.frame
    /\ UNCHANGED <<dom, ctor, calls, displayAnki, updates, theDisplay, renders>>

Next ==
    \/ \E length \in CallLengths : SeekCall(length)
    \/ SeekLoop
    \/ SeekReturn

Spec == Init /\ [][Next]_vars

\* seek is synchronous: once called, its loop and its return run without
\* yielding, so a step of a call in progress is never postponed for ever.
\* The two conditions are WF_vars(SeekLoop) and WF_vars(SeekReturn), with
\* ENABLED <<SeekLoop>>_vars and ENABLED <<SeekReturn>>_vars written out as
\* the guards of the two actions (each of their steps changes frame).
LiveSpec ==
    /\ Spec
    /\ ([]<>(frame.pc # "loop") \/ []<><<SeekLoop>>_vars)
    /\ ([]<>(frame.pc # "return") \/ []<><<SeekReturn>>_vars)

\* A cursor over one of the documents that vary a style, constructed at the
\* start of its first text or at the end of its last.
StyleInit ==
    /\ dom \in StyleDocs
    /\ \E fpw \in BOOLEAN : \E glc \in BOOLEAN :
       \E start \in {[node |-> 2, offset |-> 0],
                     [node |-> Len(dom), offset |-> Len(dom[Len(dom)].nodeValue)]} :
          /\ ctor = start
          /\ this = constructor(dom, start.node, start.offset, fpw, glc)
    /\ frame = IdleFrame
    /\ calls = <<>>
    /\ NoUpdate
    /\ NoRender

\* The first seek of a cursor.
SeekFirst(length) ==
    /\ calls = <<>>
    /\ SeekCall(length)

StyleNext ==
    \/ \E length \in CallLengths : SeekFirst(length)
    \/ SeekLoop
    \/ SeekReturn

\* One seek over each of the documents that vary a style.
StyleSpec == StyleInit /\ [][StyleNext]_vars

\* --------------------------------------- the updates of a DisplayAnki

\* The cursor of the specifications of the display: it is constructed and
\* never used.
NoSeek ==
    /\ dom = DocHello
    /\ ctor = [node |-> 1, offset |-> 0]
    /\ this = constructor(dom, 1, 0, FALSE, TRUE)
    /\ frame = IdleFrame
    /\ calls = <<>>

AnkiInit ==
    /\ NoSeek
    /\ NoRender
    /\ displayAnki = DisplayAnkiConstructor
    /\ updates = [c \in 1..MaxUpdates |-> NotCalled]

\* A call of _updateDictionaryEntryDetails (by _onContentUpdateComplete), up
\* to its first await; the calls are numbered in the order they are made.
UpdateDictionaryEntryDetails(c, dictionaryEntries) ==
    /\ updates[c].pc = "start"
    /\ \A b \in 1..(c - 1) : updates[b].pc # "start"
    /\ LET s == updateDictionaryEntryDetailsEnter(displayAnki, c, dictionaryEntries)
       IN  /\ displayAnki' = s.this
           /\ updates' = [updates EXCEPT ![c] = s.frame]
    /\ UNCHANGED <<dom, ctor, this, frame, calls, theDisplay, renders>>

\* The call resumes after await this._updateAdderButtonsPromise.
UpdateAdderButtonsPromiseResolved(c) ==
    /\ updates[c].pc = "updateAdderButtonsPromise"
    /\ updates[updates[c].awaited].resolved
    /\ LET s == updateDictionaryEntryDetailsRequest(displayAnki, c, updates[c])
       IN  /\ displayAnki' = s.this
           /\ updates' = [updates EXCEPT ![c] = s.frame]
    /\ UNCHANGED <<dom, ctor, this, frame, calls, theDisplay, renders>>

\* The call resumes after await this._getDictionaryEntryDetails(...), which
\* resolved or threw.
GetDictionaryEntryDetailsSettled(c, threw, canAdd) ==
    /\ updates[c].pc = "getDictionaryEntryDetails"
    /\ LET s == updateDictionaryEntryDetailsSettle(displayAnki, c, updates[c], threw, canAdd)
       IN  /\ displayAnki' = s.this
           /\ updates' = [updates EXCEPT ![c] = s.frame]
    /\ UNCHANGED <<dom, ctor, this, frame, calls, theDisplay, renders>>

\* The display triggers contentClear.
OnContentClear ==
    /\ displayAnki' = onContentClear(displayAnki)
    /\ UNCHANGED <<dom, ctor, this, frame, calls, updates, theDisplay, renders>>

AnkiNext ==
    \/ \E c \in 1..MaxUpdates : \E dictionaryEntries \in DictionaryEntryLists :
          UpdateDictionaryEntryDetails(c, dictionaryEntries)
    \/ \E c \in 1..MaxUpdates : UpdateAdderButtonsPromiseResolved(c)
    \/ \E c \in 1..MaxUpdates : \E threw \in BOOLEAN : \E canAdd \in BOOLEAN :
          GetDictionaryEntryDetailsSettled(c, threw, canAdd)
    \/ OnContentClear

AnkiSpec == AnkiInit /\ [][AnkiNext]_vars

\* A request to Anki settles and a resolved promise resumes the call that
\* awaits it: a call that can resume is never postponed for ever.  The
\* conditions are weak fairness of the two resumptions of each call, with
\* their guards written out.
AnkiLiveSpec ==
    /\ AnkiSpec
    /\ \A c \in 1..MaxUpdates :
          \/ []<>(~(/\ updates[c].pc = "updateAdderButtonsPromise"
                    /\ updates[updates[c].awaited].resolved))
          \/ []<><<UpdateAdderButtonsPromiseResolved(c)>>_vars
    /\ \A c \in 1..MaxUpdates :
          \/ []<>(updates[c].pc # "getDictionaryEntryDetails")
          \/ []<><<\E threw \in BOOLEAN : \E canAdd \in BOOLEAN :
                      GetDictionaryEntryDetailsSettled(c, threw, canAdd)>>_vars

\* ------------------------------------------- the content of a Display

\* The type parameter of the page address.
ContentTypes == {"terms", "kanji", "unloaded", "clear"}

DisplayInit ==
    /\ NoSeek
    /\ NoUpdate
    /\ theDisplay = DisplayConstructor
    /\ renders = [c \in 1..MaxRenders |-> NotStarted]

\* A call of _onStateChanged (the history changed its state), up to its first
\* await; the calls are numbered in the order they are made.
OnStateChanged(c, type, cached, dictionaryEntries, lookup, optionsContext, originValid) ==
    /\ renders[c].pc = "start"
    /\ \A b \in 1..(c - 1) : renders[b].pc # "start"
    /\ LET s == onStateChanged(theDisplay, c, type, cached, dictionaryEntries, lookup,
                               optionsContext, originValid)
       IN  /\ theDisplay' = s.this
           /\ renders' = [renders EXCEPT ![c] = s.frame]
    /\ UNCHANGED <<dom, ctor, this, frame, calls, displayAnki, updates>>

\* The call resumes after await this._findDictionaryEntries(...).
FindDictionaryEntriesSettled(c, threw, dictionaryEntries) ==
    /\ renders[c].pc = "findDictionaryEntries"
    /\ LET s == findDictionaryEntriesSettled(theDisplay, c, renders[c], threw, dictionaryEntries)
       IN  /\ theDisplay' = s.this
           /\ renders' = [renders EXCEPT ![c] = s.frame]
    /\ UNCHANGED <<dom, ctor, this, frame, calls, displayAnki, updates>>

\* The call resumes after await this._setOptionsContextIfDifferent(...).
SetOptionsContextIfDifferentSettled(c, threw) ==
    /\ renders[c].pc = "setOptionsContextIfDifferent"
    /\ threw => renders[c].updating
    /\ LET s == setOptionsContextIfDifferentSettled(theDisplay, c, renders[c], threw)
       IN  /\ theDisplay' = s.this
           /\ renders' = [renders EXCEPT ![c] = s.frame]
    /\ UNCHANGED <<dom, ctor, this, frame, calls, displayAnki, updates>>

\* The call resumes after await this.updateOptions().
UpdateOptionsSettled(c, threw) ==
    /\ renders[c].pc = "updateOptions"
    /\ LET s == updateOptionsSettled(theDisplay, c, renders[c], threw)
       IN  /\ theDisplay' = s.this
           /\ renders' = [renders EXCEPT ![c] = s.frame]
    /\ UNCHANGED <<dom, ctor, this, frame, calls, displayAnki, updates>>

\* The call resumes after await promiseTimeout(1).
PromiseTimeoutElapsed(c) ==
    /\ renders[c].pc = "promiseTimeout"
    /\ LET s == promiseTimeoutReturn(theDisplay, c, renders[c])
       IN  /\ theDisplay' = s.this
           /\ renders' = [renders EXCEPT ![c] = s.frame]
    /\ UNCHANGED <<dom, ctor, this, frame, calls, displayAnki, updates>>

DisplayNext ==
    \/ \E c \in 1..MaxRenders : \E type \in ContentTypes : \E cached \in BOOLEAN :
       \E dictionaryEntries \in DictionaryEntryLists : \E lookup \in BOOLEAN :
       \E optionsContext \in OptionsContexts \cup {NULL} : \E originValid \in BOOLEAN :
          OnStateChanged(c, type, cached, dictionaryEntries, lookup, optionsContext, originValid)
    \/ \E c \in 1..MaxRenders : \E threw \in BOOLEAN :
       \E dictionaryEntries \in DictionaryEntryLists :
          FindDictionaryEntriesSettled(c, threw, dictionaryEntries)
    \/ \E c \in 1..MaxRenders : \E threw \in BOOLEAN :
          SetOptionsContextIfDifferentSettled(c, threw)
    \/ \E c \in 1..MaxRenders : \E threw \in BOOLEAN : UpdateOptionsSettled(c, threw)
    \/ \E c \in 1..MaxRenders : PromiseTimeoutElapsed(c)

DisplaySpec == DisplayInit /\ [][DisplayNext]_vars

TypeOK ==
    /\ dom \in Docs \cup StyleDocs
    /\ frame.pc \in {"idle", "loop", "return"}
    /\ this.node \in 1..Len(dom)
    /\ Len(calls) <= MaxSeeks

\* ------------------------------------------------------------------ claims

IsPrefix(s, t) == Len(s) <= Len(t) /\ SubSeq(t, 1, Len(s)) = s

IsSuffix(s, t) == Len(s) <= Len(t) /\ SubSeq(t, Len(t) - Len(s) + 1, Len(t)) = s

\* Number of code points of a string: a low surrogate that follows a high one
\* belongs to the code point the high one started.
CodePointCount(s) ==
    Cardinality({i \in 1..Len(s) :
        ~(isLowSurrogate(s[i]) /\ i > 1 /\ isHighSurrogate(s[i - 1]))})

Idle == frame.pc = "idle"

LastCall == calls[Len(calls)]

\* What the seek call in progress (or the last one) has added to content.
Added ==
    IF LastCall.length >= 0
    THEN SubSeq(this.content, Len(LastCall.before.content) + 1, Len(this.content))
    ELSE SubSeq(this.content, 1, Len(this.content) - Len(LastCall.before.content))

Abs(n) == IF n >= 0 THEN n ELSE -n

IsTextNode(d, node) == d[node].nodeType = TEXT_NODE

\* A character that is neither whitespace nor zero-width.
Ordinary(c) == c \notin {TAB, LF, FF, CR, SPACE, ZWSP, ZWNJ}

\* C1: remainder accounting. During and after every seek(length), the code
\* points the call has added to content plus remainder equal |length|, and
\* remainder is never negative.
C1_RemainderAccounting ==
    /\ this.remainder >= 0
    /\ calls # <<>> =>
          CodePointCount(Added) + this.remainder = Abs(LastCall.length)

\* A seek that ran off the document after emitting text and a layout newline.
C1_Witness ==
    /\ Idle
    /\ calls # <<>>
    /\ this.remainder > 0
    /\ \E i \in 1..Len(Added) : Added[i] = LF
    /\ \E i \in 1..Len(Added) : Added[i] = SPACE

\* C2: after seek(length) with length # 0, remainder is 0 exactly when the
\* loop was left by break (length reached) and not by node === null; and when
\* remainder > 0 the walk ran off the document with the last text node
\* consumed to its end (forward) or start (backward).
C2_RemainderZeroIffSatisfied ==
    (Idle /\ calls # <<>> /\ LastCall.length # 0) =>
        /\ (this.remainder = 0) <=> (frame.exit = "break")
        /\ (this.remainder > 0) <=> (frame.exit = "null")
        /\ (this.remainder > 0 /\ IsTextNode(dom, this.node)) =>
              this.offset = IF LastCall.length > 0
                            THEN Len(dom[this.node].nodeValue)
                            ELSE 0

\* A first seek that ran off the document, then a seek that was satisfied
\* exactly at the first character of its text node.
C2_Witness ==
    /\ Idle
    /\ Len(calls) = 2
    /\ LastCall.before.remainder > 0
    /\ LastCall.length < 0
    /\ this.remainder = 0
    /\ frame.exit = "break"
    /\ IsTextNode(dom, this.node)
    /\ this.offset = 0

\* C3: chained same-direction seeks accumulate one buffer. After seek(a) that
\* returned remainder 0 and seek(b) of the same sign, content, node, offset
\* and remainder equal those of a single seek(a + b) from the same start.
C3_ChainedSeeksEqualOneSeek ==
    (/\ Idle
     /\ Len(calls) = 2
     /\ calls[1].length * calls[2].length > 0
     /\ calls[2].before.remainder = 0) =>
        LET one == seek(dom, calls[1].before, calls[1].length + calls[2].length)
        IN  /\ this.content = one.content
            /\ this.node = one.node
            /\ this.offset = one.offset
            /\ this.remainder = one.remainder

\* C4: seek(0) sets remainder to 0 and changes nothing else of the cursor.
C4_SeekZeroIsNoOp ==
    (Idle /\ calls # <<>> /\ LastCall.length = 0) =>
        this = [LastCall.before EXCEPT !.remainder = 0]

\* seek(0) on a cursor whose last seek left a remainder, pending newlines and
\* the reset-offset flag.
C4_Witness ==
    /\ Idle
    /\ Len(calls) = 2
    /\ LastCall.length = 0
    /\ LastCall.before.remainder > 0
    /\ LastCall.before.newlines > 0
    /\ LastCall.before.resetOffset
    /\ LastCall.before.content # <<>>
    /\ this.remainder = 0

\* C5: content only grows. Every step of a forward seek leaves the content it
\* found as a prefix of the new content, every step of a backward seek leaves
\* it as a suffix.
C5_ContentOnlyGrows ==
    [][/\ frame'.forward => IsPrefix(this.content, this'.content)
       /\ ~frame'.forward => IsSuffix(this.content, this'.content)]_vars

\* A backward seek that has put text in front of the content of an earlier
\* forward seek.
C5_Witness ==
    /\ Idle
    /\ Len(calls) = 2
    /\ calls[1].length > 0
    /\ calls[2].length < 0
    /\ LastCall.before.content # <<>>
    /\ Len(this.content) > Len(LastCall.before.content) + 1

\* C6: whenever no seek is in progress, offset is an index 0..length of the
\* text of node when node is a text node, and 0 when it is not.
C6_OffsetValid ==
    Idle =>
        IF IsTextNode(dom, this.node)
        THEN this.offset \in 0..Len(dom[this.node].nodeValue)
        ELSE this.offset = 0

\* The text of the node the cursor was constructed at.
StartText == dom[ctor.node].nodeValue

\* The cursor was constructed at a text node, and the n characters from its
\* start offset on are ordinary.  A character is a UTF-16 code unit that is a
\* code point of its own: seek counts code points and offset counts code
\* units, and the two agree only where no surrogate pair is read.
OrdinaryFromStart(n) ==
    /\ IsTextNode(dom, ctor.node)
    /\ n > 0
    /\ n <= Len(StartText) - ctor.offset
    /\ \A i \in (ctor.offset + 1)..(ctor.offset + n) :
          /\ Ordinary(StartText[i])
          /\ ~isHighSurrogate(StartText[i])
          /\ ~isLowSurrogate(StartText[i])

SpacesSeek(length) ==
    /\ Idle
    /\ dom = DocSpaces
    /\ ctor = [node |-> 2, offset |-> 0]
    /\ ~this.forcePreserveWhitespace
    /\ Len(calls) = 1
    /\ calls[1].length = length

\* C9 as stated: "a   b", offset 0, seek(5) yields content "a b" with
\* remainder 0.
C9_CollapsedSpaces ==
    SpacesSeek(5) => (this.content = <<97, SPACE, 98>> /\ this.remainder = 0)

\* C9 amended: seek(5) yields content "a b" with remainder 2 (the text holds
\* three characters after collapsing); seek(3) yields "a b" with remainder 0.
C9_CollapsedSpacesRemainder ==
    /\ SpacesSeek(5) => (this.content = <<97, SPACE, 98>> /\ this.remainder = 2)
    /\ SpacesSeek(3) => (this.content = <<97, SPACE, 98>> /\ this.remainder = 0)

C9_Witness ==
    /\ SpacesSeek(5)
    /\ this.content = <<97, SPACE, 98>>
    /\ this.remainder = 2
    /\ this.offset = 5

\* No text node of the document preserves whitespace, so every space in
\* content is a collapsed run.
NoPreservedWhitespace ==
    /\ ~this.forcePreserveWhitespace
    /\ \A n \in 1..Len(dom) :
          IsTextNode(dom, n) => ~getWhitespaceSettings(dom, this, n).preserveWhitespace

\* C10: leading collapsible whitespace is dropped. In forward scans, a space is
\* put into content only after a non-newline significant character of the
\* same line: never first in content and never directly after a newline.
C10_LeadingWhitespaceDropped ==
    (NoPreservedWhitespace /\ \A i \in 1..Len(calls) : calls[i].length >= 0) =>
        \A i \in 1..Len(this.content) :
            this.content[i] = SPACE =>
                (i > 1 /\ this.content[i - 1] \notin {LF, SPACE})

\* Every seek so far was a forward one.
ForwardOnly == \A i \in 1..Len(calls) : calls[i].length >= 0

\* No seek after the first began with the reset-offset flag set, so none of
\* them read a text node again from its start.
NoRescan == \A i \in 2..Len(calls) : ~calls[i].before.resetOffset

\* What _checkCharacterForward adds to the content of cursor t for this
\* character: only the character and newlines, no space, each costing one of
\* remainder.
AddsNoSpace(t, char, charAttributes) ==
    LET r == checkCharacterForward(t, char, charAttributes).this
    IN  /\ IsPrefix(t.content, r.content)
        /\ \A i \in (Len(t.content) + 1)..Len(r.content) : r.content[i] # SPACE
        /\ t.remainder - r.remainder = Len(r.content) - Len(t.content)

BlocksSeek(length) ==
    /\ Idle
    /\ dom = DocBlocks
    /\ ctor = [node |-> 3, offset |-> 0]
    /\ this.generateLayoutContent
    /\ Len(calls) = 1
    /\ calls[1].length = length

\* The newlines that the first and the second inner block report.
BlocksNewlines ==
    << getElementSeekInfo(DocBlocks, 2).newlines,
       getElementSeekInfo(DocBlocks, 4).newlines >>

\* C12: with generateLayoutContent, seek(7) from the start of "foo" in one
\* block into "bar" in the sibling block yields "foo\nbar": exactly one
\* newline between them, though the exit of the first block and the entry of
\* the second each report one newline.
C12_OneNewlineBetweenBlocks ==
    /\ BlocksNewlines = <<1, 1>>
    /\ BlocksSeek(7) =>
          /\ this.content = <<102, 111, 111, LF, 98, 97, 114>>
          /\ this.remainder = 0
          /\ this.node = 5
          /\ this.offset = 3
    /\ BlocksSeek(5) =>
          /\ this.content = <<102, 111, 111, LF, 98>>
          /\ this.remainder = 0

C12_Witness ==
    /\ BlocksSeek(7)
    /\ this.content = <<102, 111, 111, LF, 98, 97, 114>>
    /\ this.newlines = 0

\* The line feeds of the document that a scan reads as newlines: position i
\* of text node n, where n preserves newlines.
PreservedNewlines ==
    UNION {{<<n, i>> : i \in {j \in 1..Len(dom[n].nodeValue) : dom[n].nodeValue[j] = LF}} :
           n \in {m \in 1..Len(dom) :
                      /\ IsTextNode(dom, m)
                      /\ getWhitespaceSettings(dom, this, m).preserveNewlines}}

CountLF(s) == Cardinality({i \in 1..Len(s) : s[i] = LF})

\* C13: with generateLayoutContent = false the pending newline count is 0 in
\* every state, and a seek adds to content no more newlines than the document
\* holds literal line feeds in text nodes that preserve newlines: none is
\* synthesized for a block, an out-of-flow element or a BR.
C13_NoLayoutNewlinesWithoutFlag ==
    ~this.generateLayoutContent =>
        /\ this.newlines = 0
        /\ (calls # <<>> /\ CountLF(Added) > 0) =>
              CountLF(Added) <= Cardinality(PreservedNewlines)

\* <p>"a "<b>" b"</b><br>" c\n"</p> without layout content: seek(5) from "a"
\* crosses the B and the BR and yields "a b c".
C13_Witness ==
    /\ Idle
    /\ dom = DocInline
    /\ ctor = [node |-> 2, offset |-> 0]
    /\ ~this.generateLayoutContent
    /\ ~this.forcePreserveWhitespace
    /\ Len(calls) = 1
    /\ this.content = <<97, SPACE, 98, SPACE, 99>>
    /\ this.node = 6
    /\ this.newlines = 0

\* A cursor with generateLayoutContent and collapsing whitespace in
\* <div>"a "<div style="position:absolute">b</div>c</div>, constructed at
\* this node and offset, after its first seek.
AbsoluteSeek(node, offset) ==
    /\ Idle
    /\ dom = DocAbsolute
    /\ ctor = [node |-> node, offset |-> offset]
    /\ this.generateLayoutContent
    /\ ~this.forcePreserveWhitespace
    /\ Len(calls) = 1

\* The first n characters of s, and the last n.
Take(s, n) == SubSeq(s, 1, Min(n, Len(s)))

TakeLast(s, n) == SubSeq(s, Len(s) - Min(n, Len(s)) + 1, Len(s))

\* "a", the two newlines of the entry of the out-of-flow element, "b", the
\* two newlines of its exit, "c".
AbsoluteText == <<97, LF, LF, 98, LF, LF, 99>>

\* The boundaries of the out-of-flow element crossed with content before
\* them: forward from "a", backward from "c".
AbsoluteCrossedWithContent ==
    /\ (AbsoluteSeek(2, 0) /\ calls[1].length > 0) =>
          this.content = Take(AbsoluteText, calls[1].length)
    /\ (AbsoluteSeek(5, 1) /\ calls[1].length < 0) =>
          this.content = TakeLast(AbsoluteText, -calls[1].length)

\* The newlines that the out-of-flow element reports.
AbsoluteNewlines == getElementSeekInfo(DocAbsolute, 3).newlines

\* C14 as stated: crossing the boundary of a visible out-of-flow element with
\* generateLayoutContent puts two newlines before the next significant
\* character, or as many as the length allows, never fewer; also for a scan
\* that starts in the whitespace after "a" and has no content yet.
C14_TwoNewlinesAtOutOfFlow ==
    /\ AbsoluteNewlines = 2
    /\ AbsoluteCrossedWithContent
    /\ \A k \in 1..2 :
          (AbsoluteSeek(2, k) /\ calls[1].length > 0) =>
              this.content = Take(<<LF, LF, 98, LF, LF, 99>>, calls[1].length)

\* C14 amended: the two newlines (or as many as the length allows) are put
\* before the next significant character when content is not empty; a scan
\* that reaches the boundary with empty content gets none.
C14_TwoNewlinesAtOutOfFlowAfterContent ==
    /\ AbsoluteNewlines = 2
    /\ AbsoluteCrossedWithContent
    /\ \A k \in 1..2 :
          (AbsoluteSeek(2, k) /\ calls[1].length > 0) =>
              this.content = Take(<<98, LF, LF, 99>>, calls[1].length)

\* seek(7) from "a": "a\n\nb\n\nc".
C14_Witness ==
    /\ AbsoluteSeek(2, 0)
    /\ calls[1].length = 7
    /\ this.content = AbsoluteText
    /\ this.remainder = 0
    /\ this.node = 5

\* Every seek so far was a backward one.
BackwardOnly == \A i \in 1..Len(calls) : calls[i].length <= 0

\* The last seek ran off the document.
Exhausted == Idle /\ frame.exit = "null"

RECURSIVE Ancestors(_, _)
\* The parent of a node, its parent, and so on.
Ancestors(d, node) ==
    IF d[node].parentNode = NULL THEN {}
    ELSE {d[node].parentNode} \cup Ancestors(d, d[node].parentNode)

\* An element that a scan does not enter by its name.
IsSkippedElement(d, node) ==
    /\ d[node].nodeType = ELEMENT_NODE
    /\ toUpperCase(d[node].nodeName) \in {"SCRIPT", "STYLE", "HEAD", "RT"}

\* The node lies inside a SCRIPT, STYLE, HEAD or RT element.
InsideSkipped(d, node) == \E a \in Ancestors(d, node) : IsSkippedElement(d, a)

\* The characters of the text nodes inside SCRIPT, STYLE, HEAD and RT.
SkippedCharacters ==
    UNION {{dom[n].nodeValue[i] : i \in 1..Len(dom[n].nodeValue)} :
           n \in {m \in 1..Len(dom) : IsTextNode(dom, m) /\ InsideSkipped(dom, m)}}

\* C16: a scan that starts outside a SCRIPT, STYLE, HEAD or RT element never
\* enters one, in either direction: no node inside such an element is visited
\* by the loop of seek or becomes the node of the cursor, and (in the
\* documents with such an element, whose text shares no character with the
\* text outside) none of its characters appears in content; by C1 they do not
\* count against remainder.
C16_NonContentElementsNotEntered ==
    ~InsideSkipped(dom, ctor.node) =>
        /\ frame.pc = "loop" => ~InsideSkipped(dom, frame.node)
        /\ ~InsideSkipped(dom, this.node)
        /\ dom \in {DocScript, DocRuby, DocHead} =>
              \A i \in 1..Len(this.content) : this.content[i] \notin SkippedCharacters

\* <div>x<script>js</script><!-- -->yz</div>: seek(-3) from the end of "yz"
\* passes the comment and the SCRIPT backward and yields "xyz".
C16_Witness ==
    /\ Idle
    /\ dom = DocScript
    /\ ctor = [node |-> 6, offset |-> 2]
    /\ Len(calls) = 1
    /\ calls[1].length = -3
    /\ this.content = <<120, 121, 122>>
    /\ this.remainder = 0
    /\ this.node = 2

\* The cursor after the same first seek, had it been constructed at this node
\* and offset.
SeekFrom(node, offset) ==
    seek(dom,
         constructor(dom, node, offset,
                     this.forcePreserveWhitespace, this.generateLayoutContent),
         calls[1].length)

\* C17: ruby normalization. A cursor constructed at a node whose nearest
\* element is an RT with a RUBY parent, at any offset, has after every
\* seek(length) the content, node, offset and remainder of a cursor
\* constructed at that RUBY with offset 0; a cursor constructed anywhere else
\* has the node and offset it was given.
C17_RubyNormalization ==
    LET ruby == getParentRubyElement(dom, ctor.node)
    IN  IF ruby # NULL
        THEN (Idle /\ Len(calls) = 1) =>
                 LET other == SeekFrom(ruby, 0)
                 IN  /\ this.content = other.content
                     /\ this.node = other.node
                     /\ this.offset = other.offset
                     /\ this.remainder = other.remainder
        ELSE calls = <<>> =>
                 (this.node = ctor.node /\ this.offset = ctor.offset)

RECURSIVE LastVisited(_, _, _, _)
\* The last text or element node among the nodes a walk from this node to
\* the end of the document visits, in this direction; last if there is none.
LastVisited(d, node, forward, last) ==
    IF node = NULL THEN last
    ELSE LET nodeType == d[node].nodeType
             enterable == IF nodeType = ELEMENT_NODE
                          THEN getElementSeekInfo(d, node).enterable
                          ELSE FALSE
         IN  LastVisited(d, getNextNode(d, node, forward, enterable).next, forward,
                         IF nodeType \in {TEXT_NODE, ELEMENT_NODE} THEN node ELSE last)

\* C18: when a seek exhausts the document, the node of the cursor is the
\* last text or element node the traversal visited (the node the seek
\* started at when it visited none); a node of another type and an ancestor
\* that was only exited do not become the node; and node is never null after
\* a seek.
C18_NodeAfterExhaustion ==
    /\ Idle => this.node # NULL
    /\ (Exhausted /\ calls # <<>>) =>
          /\ this.node = LastVisited(dom, LastCall.before.node, LastCall.length >= 0,
                                     LastCall.before.node)
          /\ (this.node # LastCall.before.node) =>
                dom[this.node].nodeType \in {TEXT_NODE, ELEMENT_NODE}

\* <html><head>s</head><style>u</style>t</html>: seek(-5) from the end of
\* "t" visits the STYLE and the HEAD, enters neither, and runs off the
\* document; the node is the HEAD, not the HTML element that was only exited.
C18_Witness ==
    /\ Exhausted
    /\ dom = DocHead
    /\ ctor = [node |-> 6, offset |-> 1]
    /\ Len(calls) = 1
    /\ calls[1].length = -5
    /\ this.content = <<116>>
    /\ this.remainder = 4
    /\ this.node = 2

\* C19: every seek call terminates. From every state in which a call is in
\* progress, whatever the document, the start position and the length, the
\* call returns: its loop either reaches the length in the text of the
\* current node or moves on through the document until getNextNode gives
\* null.
C19_SeekTerminates == (frame.pc # "idle") ~> (frame.pc = "idle")

\* A seek that returned after walking back from the end of
\* <div>a<textarea>t</textarea><div></div>b</div> to its start without
\* finding the length asked for.
C19_Witness ==
    /\ Exhausted
    /\ dom = DocForm
    /\ ctor = [node |-> 6, offset |-> 1]
    /\ Len(calls) = 1
    /\ calls[1].length = -MaxLen
    /\ this.remainder > 0
    /\ this.node = 2
    /\ this.offset = 0

\* C20: seek changes neither the document (node types, text, parents,
\* children, styles) nor the forcePreserveWhitespace and
\* generateLayoutContent flags of the cursor: every step of every seek leaves
\* them as they were, and the cursor keeps exactly its fields.  Only node,
\* offset, content, remainder, newlines, the line flags and resetOffset may
\* change.
C20_SeekFrame ==
    [][/\ dom' = dom
       /\ this'.forcePreserveWhitespace = this.forcePreserveWhitespace
       /\ this'.generateLayoutContent = this.generateLayoutContent
       /\ DOMAIN this' = DOMAIN this]_vars

\* A seek that has changed every field it may change, with both flags set.
C20_Witness ==
    /\ Idle
    /\ Len(calls) = 1
    /\ this.forcePreserveWhitespace
    /\ this.generateLayoutContent
    /\ this.node # LastCall.before.node
    /\ this.offset # LastCall.before.offset
    /\ this.content # <<>>
    /\ this.remainder > 0
    /\ this.newlines > 0
    /\ this.lineHasContent
    /\ this.resetOffset

\* ------------------------------------------------- claims about the styles

\* The document is <div>a<name style="...">b</name>c</div>.
IsStyleDoc == Len(dom) = 5

\* The document with another style on one of its elements.
WithStyle(d, element, style) == [d EXCEPT ![element].style = style]

\* Strings that are no value of the property they are read from.
UnreadableValues == {"", "foo", "medium"}

UnreadableDisplays == {DisplayEmpty, << <<"foo">> >>}

\* The style with every value that is missing or unparseable replaced by the
\* value of an ordinary visible inline element.
Repaired(style) ==
    LET fix(value, default) == IF value \in UnreadableValues THEN default ELSE value
    IN  [display |-> IF style.display \in UnreadableDisplays
                     THEN DefaultStyle.display ELSE style.display,
         position |-> fix(style.position, DefaultStyle.position),
         visibility |-> fix(style.visibility, DefaultStyle.visibility),
         opacity |-> fix(style.opacity, DefaultStyle.opacity),
         fontSize |-> fix(style.fontSize, DefaultStyle.fontSize),
         color |-> IF style.color.isString THEN style.color ELSE DefaultStyle.color,
         webkitTextFillColor |-> IF style.webkitTextFillColor.isString
                                 THEN style.webkitTextFillColor
                                 ELSE DefaultStyle.webkitTextFillColor,
         whiteSpace |-> fix(style.whiteSpace, DefaultStyle.whiteSpace),
         userSelect |-> fix(style.userSelect, DefaultStyle.userSelect),
         webkitUserSelect |-> fix(style.webkitUserSelect, DefaultStyle.webkitUserSelect),
         MozUserSelect |-> fix(style.MozUserSelect, DefaultStyle.MozUserSelect),
         msUserSelect |-> fix(style.msUserSelect, DefaultStyle.msUserSelect)]

\* The document with the styles of all its elements repaired.
RepairedDoc(d) ==
    [n \in 1..Len(d) |-> [d[n] EXCEPT !.style = Repaired(d[n].style)]]

NotPreserved == [preserveNewlines |-> FALSE, preserveWhitespace |-> FALSE]

\* C21: seek never ends in an error, whatever the style values.  A value
\* that is missing or unparseable (display, position, visibility, opacity,
\* font-size, the colours, white-space, user-select) counts as the value of
\* an ordinary visible element: getElementSeekInfo and the whitespace
\* settings are those of the repaired style, an element of which no value can
\* be read is entered with 0 newlines and its text is scanned with
\* whitespace not preserved, and every seek returns what it returns on the
\* repaired document.
C21_UnreadableStyleIsPermissive ==
    /\ \A n \in 1..Len(dom) :
          dom[n].nodeType = ELEMENT_NODE =>
              getElementSeekInfo(dom, n) = getElementSeekInfo(RepairedDoc(dom), n)
    /\ \A n \in 1..Len(dom) :
          dom[n].nodeType = TEXT_NODE =>
              getWhitespaceSettings(dom, this, n)
                  = getWhitespaceSettings(RepairedDoc(dom), this, n)
    /\ (IsStyleDoc /\ dom[3].style \in {MissingStyle, UnparseableStyle}) =>
          /\ isStyleVisible(dom[3].style)
          /\ dom[3].nodeName = "SPAN" =>
                 getElementSeekInfo(dom, 3) = [enterable |-> TRUE, newlines |-> 0]
          /\ ~this.forcePreserveWhitespace =>
                 getWhitespaceSettings(dom, this, 4) = NotPreserved
    /\ (Idle /\ calls # <<>>) =>
          this = seek(RepairedDoc(dom), LastCall.before, LastCall.length)

\* <div>a<span>b</span>c</div> with a span of which no style value can be
\* read: seek(7) from the start of "a" returns with the text of the span in
\* content.
C21_Witness ==
    /\ Idle
    /\ dom = StyleDoc("SPAN", MissingStyle)
    /\ ctor = [node |-> 2, offset |-> 0]
    /\ Len(calls) = 1
    /\ calls[1].length = 7
    /\ this.content = <<97, 98, 99>>
    /\ this.remainder = 4

\* The document with another name on one of its elements.
WithName(d, element, name) == [d EXCEPT ![element].nodeName = name]

\* The first seek was seek(7) from the start of "a" in
\* <div>a<name>b</name>c</div>, with layout content, and has returned.
StyleSeekForward ==
    /\ Idle
    /\ IsStyleDoc
    /\ ctor = [node |-> 2, offset |-> 0]
    /\ Len(calls) = 1
    /\ calls[1].length = 7
    /\ this.generateLayoutContent

\* C22: getElementSeekInfo by name, whatever the style.  HEAD, RT, SCRIPT and
\* STYLE give (not enterable, 0 newlines); BR gives (not enterable, 1
\* newline); TEXTAREA, INPUT and BUTTON are not enterable and have the
\* newlines an element without a special name has with the same style.  A
\* seek across such an element adds "a", those newlines and "c".
C22_SeekInfoByName ==
    IsStyleDoc =>
        LET name == dom[3].nodeName
            info == getElementSeekInfo(dom, 3)
            general == getElementSeekInfo(WithName(dom, 3, "SPAN"), 3)
        IN  /\ name \in {"HEAD", "RT", "SCRIPT", "STYLE"} =>
                  info = [enterable |-> FALSE, newlines |-> 0]
            /\ name = "BR" => info = [enterable |-> FALSE, newlines |-> 1]
            /\ name \in {"TEXTAREA", "INPUT", "BUTTON"} =>
                  info = [enterable |-> FALSE, newlines |-> general.newlines]
            /\ (StyleSeekForward /\ name # "SPAN") =>
                  this.content = <<97>> \o Repeat(LF, info.newlines) \o <<99>>

\* <div>a<br style="display: none">b</br>c</div>: the BR that is not
\* displayed still gives its newline.
C22_Witness ==
    /\ StyleSeekForward
    /\ dom = StyleDoc("BR", [DefaultStyle EXCEPT !.display = DisplayNone])
    /\ this.content = <<97, LF, 99>>

\* <div>a<textarea style="display: block; position: fixed">b</textarea>c</div>:
\* the TEXTAREA is not entered and gives the two newlines of its position.
C22_WitnessFormControl ==
    /\ StyleSeekForward
    /\ dom = StyleDoc("TEXTAREA", [BlockStyle EXCEPT !.position = "fixed"])
    /\ this.content = <<97, LF, LF, 99>>

\* The element is displayed and its style passes the visibility test.
IsVisible(d, element) ==
    /\ d[element].style.display # DisplayNone
    /\ isStyleVisible(d[element].style)

\* C23: a visible element whose name does not decide (not HEAD, RT, SCRIPT,
\* STYLE or BR) has 2 newlines when its position is absolute, fixed or
\* sticky, whatever its display; otherwise 1 when its display changes the
\* layout; otherwise 0.  The newlines of every element are 0, 1 or 2, and a
\* seek through a visible span adds that many before and after its text.
C23_NewlinesOfVisibleElement ==
    /\ \A n \in 1..Len(dom) :
          dom[n].nodeType = ELEMENT_NODE =>
              getElementSeekInfo(dom, n).newlines \in {0, 1, 2}
    /\ IsStyleDoc =>
          LET style == dom[3].style
              info == getElementSeekInfo(dom, 3)
              expected == IF style.position \in {"absolute", "fixed", "sticky"} THEN 2
                          ELSE IF doesCSSDisplayChangeLayout(style.display) THEN 1
                          ELSE 0
          IN  /\ (IsVisible(dom, 3)
                   /\ dom[3].nodeName \notin {"HEAD", "RT", "SCRIPT", "STYLE", "BR"}) =>
                     info.newlines = expected
              /\ (StyleSeekForward /\ IsVisible(dom, 3) /\ dom[3].nodeName = "SPAN") =>
                     this.content
                        = Take(<<97>> \o Repeat(LF, expected) \o <<98>>
                                  \o Repeat(LF, expected) \o <<99>>, 7)

\* <div>a<span style="display: block; position: sticky">b</span>c</div>: two
\* newlines on each side of "b", not the one of the block.
C23_Witness ==
    /\ StyleSeekForward
    /\ dom = StyleDoc("SPAN", [BlockStyle EXCEPT !.position = "sticky"])
    /\ this.content = <<97, LF, LF, 98, LF, LF, 99>>
    /\ this.remainder = 0

\* The first seek was seek(-MaxLen) from the end of "c" in
\* <div>a<name>b</name>c</div>, with layout content, and has returned.
StyleSeekBackward ==
    /\ Idle
    /\ IsStyleDoc
    /\ ctor = [node |-> 5, offset |-> 1]
    /\ Len(calls) = 1
    /\ calls[1].length = -MaxLen
    /\ this.generateLayoutContent

\* C24: an element that is not visible (display none, or a style that fails
\* the visibility test) is not enterable and has 0 newlines, whatever its
\* position and its name, BR excepted.  The same info is computed when the
\* element is reached and when it is exited, so no seek puts its text or a
\* newline into content: a seek across it adds "a" and "c" only.
C24_InvisibleElementAddsNothing ==
    (IsStyleDoc /\ ~IsVisible(dom, 3) /\ dom[3].nodeName # "BR") =>
        /\ getElementSeekInfo(dom, 3) = [enterable |-> FALSE, newlines |-> 0]
        /\ \A i \in 1..Len(this.content) : this.content[i] \in {97, 99}
        /\ frame.node # 4 /\ this.node # 4
        /\ (StyleSeekForward \/ StyleSeekBackward) => this.content = <<97, 99>>

\* <div>a<span style="visibility: hidden; display: block; position:
\* absolute">b</span>c</div>, walked backward from the end of "c".
C24_Witness ==
    /\ StyleSeekBackward
    /\ dom = StyleDoc("SPAN", [BlockStyle EXCEPT !.visibility = "hidden",
                                                 !.position = "absolute"])
    /\ this.content = <<97, 99>>
    /\ this.remainder = MaxLen - 2

\* block, flex, grid, list-item, table and a table part.
BlockLikeDisplays ==
    {DisplayBlock, DisplayBlockFlow, DisplayFlex, DisplayGrid, DisplayListItem,
     DisplayTable, DisplayTableCell}

\* ruby-text and ruby-base.
RubyPartDisplays == {DisplayRubyText, DisplayRubyBase}

\* The first seek, seek(7) from the start of "a", went through a visible
\* span in the normal flow.
FlowSeekForward ==
    /\ StyleSeekForward
    /\ dom[3].nodeName = "SPAN"
    /\ IsVisible(dom, 3)
    /\ dom[3].style.position \in {"static", "relative"}

\* "a", "b" and "c" with this many newlines on each side of "b".
Separated(n) == <<97>> \o Repeat(LF, n) \o <<98>> \o Repeat(LF, n) \o <<99>>

\* C25 as stated: block, flex, grid, list-item, table and table-part values
\* and ruby change the layout; inline and the ruby parts (ruby-text,
\* ruby-base) do not.
C25_DisplayClassification ==
    IsStyleDoc =>
        LET display == dom[3].style.display
        IN  /\ display \in BlockLikeDisplays \cup {DisplayRuby} =>
                  /\ doesCSSDisplayChangeLayout(display)
                  /\ FlowSeekForward => this.content = Separated(1)
            /\ display \in {DisplayInline} \cup RubyPartDisplays =>
                  /\ ~doesCSSDisplayChangeLayout(display)
                  /\ FlowSeekForward => this.content = Separated(0)

\* C25, amended: block, flex, grid, list-item, table and table-part values
\* and the ruby parts (ruby-text, ruby-base) change the layout; inline and
\* the ruby container value ruby do not.
C25_DisplayClassificationRubyParts ==
    IsStyleDoc =>
        LET display == dom[3].style.display
        IN  /\ display \in BlockLikeDisplays \cup RubyPartDisplays =>
                  /\ doesCSSDisplayChangeLayout(display)
                  /\ FlowSeekForward => this.content = Separated(1)
            /\ display \in {DisplayInline, DisplayRuby} =>
                  /\ ~doesCSSDisplayChangeLayout(display)
                  /\ FlowSeekForward => this.content = Separated(0)

\* <div>a<span style="display: ruby-text">b</span>c</div>: a newline on each
\* side of "b".
C25_Witness ==
    /\ FlowSeekForward
    /\ dom = StyleDoc("SPAN", [DefaultStyle EXCEPT !.display = DisplayRubyText])
    /\ this.content = <<97, LF, 98, LF, 99>>

\* <div>a<span style="display: ruby">b</span>c</div>: no newline.
C25_WitnessRuby ==
    /\ FlowSeekForward
    /\ dom = StyleDoc("SPAN", [DefaultStyle EXCEPT !.display = DisplayRuby])
    /\ this.content = <<97, 98, 99>>

\* An opacity or a font-size that is a number not above 0.
NotPositive(value) == value \in {"0", "0px"}

\* One of the user-select properties is none.
Unselectable(style) ==
    "none" \in {style.userSelect, style.webkitUserSelect,
                style.MozUserSelect, style.msUserSelect}

\* rgba(..., 0) is the one colour of the documents that is fully transparent.
FullyTransparent(color) == color = ColorTransparent

\* The first seek, seek(7) from the start of "a", went across or through a
\* displayed inline span in the normal flow.
InlineSeekForward ==
    /\ StyleSeekForward
    /\ dom[3].nodeName = "SPAN"
    /\ dom[3].style.display = DisplayInline
    /\ dom[3].style.position = "static"

\* C26 as stated: a style is visible unless visibility is hidden, or opacity
\* <= 0, or font-size <= 0, or the text is not selectable and the text colour
\* and the text fill colour are both fully transparent; a seek reads the text
\* of a span exactly when its style is visible.
C26_VisibilityTest ==
    IsStyleDoc =>
        LET style == dom[3].style
            visible == ~(\/ style.visibility = "hidden"
                         \/ NotPositive(style.opacity)
                         \/ NotPositive(style.fontSize)
                         \/ /\ Unselectable(style)
                            /\ FullyTransparent(style.color)
                            /\ FullyTransparent(style.webkitTextFillColor))
        IN  /\ isStyleVisible(style) = visible
            /\ InlineSeekForward =>
                  this.content = IF visible THEN <<97, 98, 99>> ELSE <<97, 99>>

\* C26, amended: a style is visible unless visibility is hidden, or opacity
\* <= 0, or font-size <= 0, or the text is not selectable and the text colour
\* or the text fill colour is fully transparent; a seek reads the text of a
\* span exactly when its style is visible.
C26_VisibilityTestEitherColor ==
    IsStyleDoc =>
        LET style == dom[3].style
            visible == ~(\/ style.visibility = "hidden"
                         \/ NotPositive(style.opacity)
                         \/ NotPositive(style.fontSize)
                         \/ /\ Unselectable(style)
                            /\ \/ FullyTransparent(style.color)
                               \/ FullyTransparent(style.webkitTextFillColor))
        IN  /\ isStyleVisible(style) = visible
            /\ InlineSeekForward =>
                  this.content = IF visible THEN <<97, 98, 99>> ELSE <<97, 99>>

\* <div>a<span style="user-select: none; color: rgba(0, 0, 0, 0);
\* -webkit-text-fill-color: rgb(0, 0, 0)">b</span>c</div>: one colour of the
\* two is transparent and the text of the span is not read.
C26_Witness ==
    /\ InlineSeekForward
    /\ dom = StyleDoc("SPAN", [DefaultStyle EXCEPT !.userSelect = "none",
                                                   !.color = ColorTransparent])
    /\ this.content = <<97, 99>>

\* The characters getCharacterAttributes names, and others: a vertical tab,
\* "a", a no-break space, a zero-width joiner, an ideographic space, a
\* hiragana letter, a high surrogate and a byte order mark.
ClassifiedCharacters ==
    {TAB, LF, FF, CR, SPACE, ZWSP, ZWNJ}
        \cup {11, 97, 160, 8205, 12288, 12354, 55357, 65279}

\* The four kinds of character.
Ignorable == 0
CollapsibleWhitespace == 1
Significant == 2
PreservedNewline == 3

\* The first seek was seek(7) from the start of the text of
\* <p>(tab)(space)a(form feed)(carriage return)(line feed)b(zero-width
\* space)(zero-width non-joiner)</p>, without forcePreserveWhitespace, and
\* has returned.
WhiteSpaceSeek ==
    /\ Idle
    /\ ~IsStyleDoc
    /\ ctor = [node |-> 2, offset |-> 0]
    /\ Len(calls) = 1
    /\ calls[1].length = 7
    /\ ~this.forcePreserveWhitespace

\* C27: tab, form feed, carriage return and space are collapsible whitespace
\* when preserveWhitespace is false and significant otherwise; line feed is
\* collapsible whitespace when preserveNewlines is false and a preserved
\* newline otherwise; zero-width space and zero-width non-joiner are
\* ignorable; every other character is significant; for all four
\* combinations of the two flags.  The text of an element is read
\* accordingly under each value of white-space.
C27_CharacterClassification ==
    /\ \A c \in ClassifiedCharacters : \A pn \in BOOLEAN : \A pw \in BOOLEAN :
          getCharacterAttributes(<<c>>, pn, pw)
             = IF c \in {TAB, FF, CR, SPACE}
               THEN (IF pw THEN Significant ELSE CollapsibleWhitespace)
               ELSE IF c = LF
               THEN (IF pn THEN PreservedNewline ELSE CollapsibleWhitespace)
               ELSE IF c \in {ZWSP, ZWNJ} THEN Ignorable
               ELSE Significant
    /\ WhiteSpaceSeek =>
          this.content
             = CASE dom[1].style.whiteSpace \in {"pre", "pre-wrap", "break-spaces"} ->
                        <<TAB, SPACE, 97, FF, CR, LF, 98>>
                 [] dom[1].style.whiteSpace = "pre-line" ->
                        <<SPACE, 97, LF, 98>>
                 [] OTHER ->
                        <<SPACE, 97, SPACE, 98>>

\* Under white-space: pre-line the line feed is kept and the other
\* whitespace collapses.
C27_Witness ==
    /\ WhiteSpaceSeek
    /\ dom = WhiteSpaceDoc("pre-line")
    /\ this.content = <<SPACE, 97, LF, 98>>
    /\ this.remainder = 3

NotZeroWidth(c) == c \notin {ZWSP, ZWNJ}

\* C28: with forcePreserveWhitespace = true every text node is scanned with
\* newlines and whitespace preserved, whatever the white-space of its parent.
\* Every tab, space, carriage return, form feed and line feed of the text is
\* emitted and counts one against remainder, and no run is collapsed: a seek
\* from the start of the text gives its first characters, one from its end
\* its last, the zero-width ones left out.
C28_ForcePreserveWhitespace ==
    this.forcePreserveWhitespace =>
        /\ \A n \in 1..Len(dom) :
              dom[n].nodeType = TEXT_NODE =>
                  getWhitespaceSettings(dom, this, n)
                     = [preserveNewlines |-> TRUE, preserveWhitespace |-> TRUE]
        /\ (~IsStyleDoc /\ Idle /\ Len(calls) = 1) =>
              LET text == SelectSeq(dom[2].nodeValue, NotZeroWidth)
                  length == calls[1].length
              IN  /\ (ctor.offset = 0 /\ length >= 0) =>
                        /\ this.content = Take(text, length)
                        /\ this.remainder = length - Len(this.content)
                  /\ (ctor.offset # 0 /\ length <= 0) =>
                        /\ this.content = TakeLast(text, -length)
                        /\ this.remainder = (-length) - Len(this.content)

\* white-space: normal, and seek(7) from the start of the text still gives
\* the tab, the space, "a", the form feed, the carriage return, the line
\* feed and "b".
C28_Witness ==
    /\ Idle
    /\ this.forcePreserveWhitespace
    /\ dom = WhiteSpaceDoc("normal")
    /\ ctor = [node |-> 2, offset |-> 0]
    /\ Len(calls) = 1
    /\ calls[1].length = 7
    /\ this.content = <<TAB, SPACE, 97, FF, CR, LF, 98>>
    /\ this.remainder = 0

\* ------------------------------------------- claims about the characters

\* The cursor after the scan of the text node the loop of seek is at, before
\* the nodes exited after it are looked at.
Scanned ==
    IF frame.forward
    THEN seekTextNodeForward(dom, this, frame.node, frame.resetOffset).this
    ELSE seekTextNodeBackward(dom, this, frame.node, frame.resetOffset).this

\* A step of the loop of seek that scans a text node with newlines pending
\* and finds a significant character in it: the pending newlines are
\* emitted or dropped, so the content or the pending count changes.
FlushStep ==
    /\ frame.pc = "loop"
    /\ frame.node # NULL
    /\ IsTextNode(dom, frame.node)
    /\ this.newlines > 0
    /\ (Scanned.content # this.content \/ Scanned.newlines # this.newlines)
    /\ this'.content = Scanned.content
    /\ this'.remainder = Scanned.remainder

\* What such a step does with n of the pending newlines: they are added to
\* content on the side of the scan, remainder and the pending count decrease
\* by n, whitespace pending before them gives no space after them, and the
\* line flags are reset when the scan stops there.
Flushes(n) ==
    /\ IF frame.forward
       THEN IsPrefix(this.content \o Repeat(LF, n), this'.content)
       ELSE IsSuffix(Repeat(LF, n) \o this.content, this'.content)
    /\ Scanned.newlines = this.newlines - n
    /\ this'.remainder <= this.remainder - n
    /\ Len(this'.content) - Len(this.content) = this.remainder - this'.remainder
    /\ (n < this.remainder
        /\ ~getWhitespaceSettings(dom, this, frame.node).preserveWhitespace) =>
          IF frame.forward
          THEN this'.content[Len(this.content) + n + 1] # SPACE
          ELSE this'.content[Len(this'.content) - Len(this.content) - n] # SPACE
    /\ n = this.remainder =>
          /\ this'.remainder = 0
          /\ this'.newlines = this.newlines - n
          /\ ~this'.lineHasContent
          /\ ~this'.lineHasWhitespace

\* The pending count is changed by the scan of a node only: a seek that
\* returns leaves it to the next one.
LeftoverKept ==
    frame.pc \in {"idle", "return"} => this'.newlines = this.newlines

\* C29 as stated: whenever a significant character is processed while
\* pendingNewlines > 0, exactly min(remainder, pendingNewlines) newlines are
\* emitted (appended forward, prepended backward), remainder and
\* pendingNewlines decrease by that amount and the line flags are reset; the
\* leftover, when remainder < pendingNewlines, is kept for the next seek.
C29_PendingNewlineFlush ==
    [][/\ FlushStep => Flushes(Min(this.remainder, this.newlines))
       /\ LeftoverKept]_vars

\* C29, amended: the same when content is not empty; when content is empty,
\* no newline is emitted, remainder is not reduced for them and
\* pendingNewlines becomes 0.
C29_PendingNewlineFlushAfterContent ==
    [][/\ (FlushStep /\ Len(this.content) > 0) =>
              Flushes(Min(this.remainder, this.newlines))
       /\ (FlushStep /\ Len(this.content) = 0) =>
              /\ Scanned.newlines = 0
              /\ Len(this'.content) = this.remainder - this'.remainder
              /\ ~getWhitespaceSettings(dom, this, frame.node).preserveNewlines =>
                     \A i \in 1..Len(this'.content) : this'.content[i] # LF
       /\ LeftoverKept]_vars

\* <div>"a "<div style="position: absolute">b</div>c</div>: seek(2) from the
\* start of "a " stops after one of the two newlines, and the seek(2) that
\* follows emits the one left over before "b".
C29_Witness ==
    /\ Idle
    /\ dom = DocAbsolute
    /\ ctor = [node |-> 2, offset |-> 0]
    /\ Len(calls) = 2
    /\ calls[1].length = 2
    /\ calls[2].length = 2
    /\ calls[2].before.content = <<97, LF>>
    /\ calls[2].before.newlines = 1
    /\ this.content = <<97, LF, LF, 98>>
    /\ this.newlines = 0

\* What is due in content before a significant character: the pending
\* newlines after a content that is not empty, or else the one space of the
\* whitespace pending on a line with content.
Due(t, charAttributes) ==
    IF t.newlines > 0
    THEN (IF Len(t.content) > 0 THEN Repeat(LF, t.newlines) ELSE <<>>)
    ELSE IF t.lineHasWhitespace /\ charAttributes = Significant THEN <<SPACE>>
    ELSE <<>>

\* The rule of C30 for one significant character met at this offset by the
\* cursor t, r being what the check of the character returns: when the
\* length is reached within what is due before the character, the character
\* is not added and the offset is the one before the character was read;
\* when it is reached by the character, the offset is past the character;
\* otherwise the scan goes on.
StopsRight(t, char, charAttributes, r, forward) ==
    LET due == Due(t, charAttributes)
        past == IF forward THEN t.offset + Len(char) ELSE t.offset - Len(char)
    IN  IF t.remainder <= Len(due)
        THEN /\ r.ret
             /\ r.this.remainder = 0
             /\ r.this.offset = t.offset
             /\ r.this.content = IF forward
                                 THEN t.content \o Take(due, t.remainder)
                                 ELSE Take(due, t.remainder) \o t.content
        ELSE /\ r.ret = (t.remainder = Len(due) + 1)
             /\ r.this.remainder = t.remainder - Len(due) - 1
             /\ r.this.offset = past
             /\ r.this.content = IF forward
                                 THEN t.content \o due \o char
                                 ELSE char \o due \o t.content

RECURSIVE ForwardScanStopsRight(_, _, _)
\* The rule holds for every significant character of a forward scan of this
\* text by the cursor t.
ForwardScanStopsRight(t, nodeValue, ws) ==
    IF t.offset < Len(nodeValue)
    THEN LET char == readCodePointsForward(nodeValue, t.offset)
             charAttributes == getCharacterAttributes(char, ws.preserveNewlines,
                                                      ws.preserveWhitespace)
             r == checkCharacterForward([t EXCEPT !.offset = @ + Len(char)],
                                        char, charAttributes)
         IN  /\ charAttributes \in {Significant, PreservedNewline} =>
                   StopsRight(t, char, charAttributes, r, TRUE)
             /\ r.ret \/ ForwardScanStopsRight(r.this, nodeValue, ws)
    ELSE TRUE

RECURSIVE BackwardScanStopsRight(_, _, _)
BackwardScanStopsRight(t, nodeValue, ws) ==
    IF t.offset > 0
    THEN LET char == readCodePointsBackward(nodeValue, t.offset - 1)
             charAttributes == getCharacterAttributes(char, ws.preserveNewlines,
                                                      ws.preserveWhitespace)
             r == checkCharacterBackward([t EXCEPT !.offset = @ - Len(char)],
                                         char, charAttributes)
         IN  /\ charAttributes \in {Significant, PreservedNewline} =>
                   StopsRight(t, char, charAttributes, r, FALSE)
             /\ r.ret \/ BackwardScanStopsRight(r.this, nodeValue, ws)
    ELSE TRUE

\* The seek that returned stopped inside a text node, its length reached.
StoppedInText == Idle /\ calls # <<>> /\ frame.exit = "break"

\* C30: when a seek stops because remainder reached 0 while the pending
\* newlines or a collapsed space were being emitted, the significant
\* character that triggered the emission is not in content and the offset is
\* the position of that character (its index forward, the index just after
\* it backward); when the seek stops on an emitted character, the offset is
\* past that character.  The rule holds for every character of every text
\* node a seek scans; and after a seek that stopped on an ordinary character
\* the character before the offset (forward) or at the offset (backward) is
\* the one at the end of content on the side of the scan.
C30_OffsetAtStop ==
    /\ (frame.pc = "loop" /\ frame.node # NULL /\ IsTextNode(dom, frame.node)) =>
          LET nodeValue == dom[frame.node].nodeValue
              ws == getWhitespaceSettings(dom, this, frame.node)
          IN  IF frame.forward
              THEN ForwardScanStopsRight(
                       IF frame.resetOffset THEN [this EXCEPT !.offset = 0] ELSE this,
                       nodeValue, ws)
              ELSE BackwardScanStopsRight(
                       IF frame.resetOffset
                       THEN [this EXCEPT !.offset = Len(nodeValue)] ELSE this,
                       nodeValue, ws)
    /\ StoppedInText =>
          LET nodeValue == dom[this.node].nodeValue
              forward == LastCall.length >= 0
              last == IF forward THEN this.content[Len(this.content)]
                      ELSE this.content[1]
          IN  /\ this.remainder = 0
              /\ this.offset \in 0..Len(nodeValue)
              /\ Ordinary(last) =>
                    IF forward
                    THEN this.offset > 0 /\ nodeValue[this.offset] = last
                    ELSE this.offset < Len(nodeValue)
                         /\ nodeValue[this.offset + 1] = last

\* <div>"a "<div style="position: absolute">b</div>c</div>: seek(2) from the
\* start of "a " stops after the first of the two newlines due before "b";
\* "b" is not in content and the offset is 0, the index of "b" in its text.
C30_Witness ==
    /\ StoppedInText
    /\ dom = DocAbsolute
    /\ ctor = [node |-> 2, offset |-> 0]
    /\ Len(calls) = 1
    /\ calls[1].length = 2
    /\ this.content = <<97, LF>>
    /\ this.node = 4
    /\ this.offset = 0

\* The same cursor after seek(4): it stops on "b" and the offset is 1, past
\* it.
C30_WitnessEmitted ==
    /\ StoppedInText
    /\ dom = DocAbsolute
    /\ ctor = [node |-> 2, offset |-> 0]
    /\ Len(calls) = 1
    /\ calls[1].length = 4
    /\ this.content = <<97, LF, LF, 98>>
    /\ this.node = 4
    /\ this.offset = 1

\* ----------------------------------------- claims about the traversal

Max(a, b) == IF a >= b THEN a ELSE b

\* The step of the loop of seek is at this kind of node.
AtText == frame.pc = "loop" /\ frame.node # NULL /\ IsTextNode(dom, frame.node)

AtElement ==
    frame.pc = "loop" /\ frame.node # NULL /\ dom[frame.node].nodeType = ELEMENT_NODE

\* The nodes the step of the loop exits after its node.
ExitedNow ==
    LET enterable == AtElement /\ getElementSeekInfo(dom, frame.node).enterable
    IN  getNextNode(dom, frame.node, frame.forward, enterable).exitedNodes

\* The elements whose newlines the step consults: its node when that is an
\* element, and the elements it exits.
Crossed ==
    {n \in 1..Len(dom) :
        /\ dom[n].nodeType = ELEMENT_NODE
        /\ \/ (AtElement /\ n = frame.node)
           \/ \E i \in 1..Len(ExitedNow) : ExitedNow[i] = n}

\* The largest newline count of these elements, 0 when there is none.
MaxNewlines(elements) ==
    IF elements = {} THEN 0
    ELSE CHOOSE m \in 0..2 :
             /\ \E n \in elements : getElementSeekInfo(dom, n).newlines = m
             /\ \A n \in elements : getElementSeekInfo(dom, n).newlines <= m

\* The text of the node has a significant character under its whitespace
\* settings.
HasSignificant(node) ==
    LET ws == getWhitespaceSettings(dom, this, node)
    IN  \E i \in 1..Len(dom[node].nodeValue) :
            getCharacterAttributes(<<dom[node].nodeValue[i]>>, ws.preserveNewlines,
                                   ws.preserveWhitespace)
                \in {Significant, PreservedNewline}

\* C31: the pending newline count is always 0, 1 or 2.  Visiting or exiting
\* elements raises it to the maximum of its value and their newline counts,
\* and only when generateLayoutContent is true; the scan of a text lowers it
\* only when the text has a significant character; entering and returning
\* from seek leave it alone.
C31_PendingNewlines ==
    [][/\ this.newlines \in {0, 1, 2}
       /\ this'.newlines \in {0, 1, 2}
       /\ frame.pc \in {"idle", "return"} => this'.newlines = this.newlines
       /\ (frame.pc = "loop" /\ ~AtText) =>
             this'.newlines = IF this.generateLayoutContent
                              THEN Max(this.newlines, MaxNewlines(Crossed))
                              ELSE this.newlines
       /\ AtText =>
             /\ Scanned.newlines <= this.newlines
             /\ Scanned.newlines < this.newlines => HasSignificant(frame.node)
             /\ this'.newlines
                   = IF frame'.exit = "break" \/ ~this.generateLayoutContent
                     THEN Scanned.newlines
                     ELSE Max(Scanned.newlines, MaxNewlines(Crossed))]_vars

\* <div>"a "<div style="position: absolute">b</div>c</div>: the seek from
\* "a " has visited the absolute element, which raised the count to 2, and
\* is at the text "b".
C31_Witness ==
    /\ AtText
    /\ dom = DocAbsolute
    /\ ctor = [node |-> 2, offset |-> 0]
    /\ frame.node = 4
    /\ frame.forward
    /\ this.content = <<97>>
    /\ this.newlines = 2

\* The elements among the nodes the step exits.
ExitedElements ==
    {n \in 1..Len(dom) :
        /\ dom[n].nodeType = ELEMENT_NODE
        /\ \E i \in 1..Len(ExitedNow) : ExitedNow[i] = n}

\* The first seek of a cursor constructed in the text "b" of
\* <div>"a "<div style="position: absolute">b</div>c</div>, with layout
\* content, has returned.
InsideSeek ==
    /\ Idle
    /\ dom = DocAbsolute
    /\ ctor.node = 4
    /\ Len(calls) = 1
    /\ this.generateLayoutContent
    /\ ~this.forcePreserveWhitespace

\* C32: the elements a step of the traversal leaves, sideways or upward,
\* raise the pending count to their newline count: an element that is not
\* entered and an enterable element without children are exited in the step
\* that visits them, and an ancestor of the node the scan started in is
\* exited without ever being visited.  So the text of a block and the text
\* that follows the block are separated by the newlines of the block, in
\* both directions.
C32_ExitedElementsRaiseNewlines ==
    [][/\ (frame.pc = "loop" /\ frame'.exit # "break"
           /\ this.generateLayoutContent) =>
             \A n \in ExitedElements :
                 this'.newlines >= getElementSeekInfo(dom, n).newlines
       /\ (AtElement /\ (firstChild(dom, frame.node) = NULL
                          \/ ~getElementSeekInfo(dom, frame.node).enterable)) =>
             frame.node \in ExitedElements
       /\ (frame.pc = "loop" /\ frame.node # NULL /\ frame'.exit = "null") =>
             \A n \in Ancestors(dom, frame.node) :
                 dom[n].nodeType = ELEMENT_NODE => n \in ExitedElements
       /\ (InsideSeek /\ ctor.offset = 0 /\ calls[1].length > 0) =>
             this.content = Take(<<98, LF, LF, 99>>, calls[1].length)
       /\ (InsideSeek /\ ctor.offset = 1 /\ calls[1].length < 0) =>
             this.content = TakeLast(<<97, LF, LF, 98>>, -calls[1].length)]_vars

\* seek(4) from the start of "b": the absolute element was never visited,
\* and its exit puts two newlines between "b" and "c".
C32_Witness ==
    /\ InsideSeek
    /\ ctor.offset = 0
    /\ calls[1].length = 4
    /\ this.content = <<98, LF, LF, 99>>
    /\ this.node = 5

\* The node without a parent.
Root(d) == CHOOSE n \in 1..Len(d) : d[n].parentNode = NULL

RECURSIVE PreOrder(_, _)
RECURSIVE PreOrderOfAll(_, _)
\* The nodes of the subtree of a node in document order: the node, then the
\* subtrees of its children from the first to the last.
PreOrder(d, node) == <<node>> \o PreOrderOfAll(d, d[node].childNodes)

PreOrderOfAll(d, nodes) ==
    IF nodes = <<>> THEN <<>>
    ELSE PreOrder(d, Head(nodes)) \o PreOrderOfAll(d, Tail(nodes))

RECURSIVE PostOrder(_, _)
RECURSIVE PostOrderOfAll(_, _)
\* The nodes of the subtree in post-order: the subtrees of the children from
\* the first to the last, then the node.
PostOrder(d, node) == PostOrderOfAll(d, d[node].childNodes) \o <<node>>

PostOrderOfAll(d, nodes) ==
    IF nodes = <<>> THEN <<>>
    ELSE PostOrder(d, Head(nodes)) \o PostOrderOfAll(d, Tail(nodes))

Reverse(s) == [i \in 1..Len(s) |-> s[Len(s) + 1 - i]]

\* The order of the traversal in a direction, and the place of a node in it.
TraversalOrder(d, forward) ==
    IF forward THEN PreOrder(d, Root(d)) ELSE Reverse(PostOrder(d, Root(d)))

Place(order, node) == CHOOSE i \in 1..Len(order) : order[i] = node

\* The nodes that may follow the node of the step: those after it in the
\* order of the traversal, its descendants left out when it is not entered.
Following ==
    LET order == TraversalOrder(dom, frame.forward)
        entered == AtElement /\ getElementSeekInfo(dom, frame.node).enterable
    IN  {n \in 1..Len(dom) :
            /\ Place(order, n) > Place(order, frame.node)
            /\ entered \/ frame.node \notin Ancestors(dom, n)}

\* C33: within one seek the nodes are visited in document pre-order
\* (forward) or in the reverse of document post-order (backward), starting at
\* the node of the cursor.  Every step goes to the first node after its own
\* in that order, passing over the descendants of an element that is not
\* enterable, and ends the traversal when there is none; so no node is
\* visited twice, and an ancestor the traversal climbs to is exited and not
\* visited.
C33_TraversalOrder ==
    [][LET order == TraversalOrder(dom, frame.forward)
       IN  /\ (frame.pc = "idle" /\ frame'.pc = "loop") => frame'.node = this.node
           /\ (frame.pc = "loop" /\ frame'.exit = "break") => frame'.node = frame.node
           /\ (frame.pc = "loop" /\ frame'.pc = "loop") =>
                 /\ frame'.node \in Following
                 /\ \A n \in Following :
                        Place(order, frame'.node) <= Place(order, n)
                 /\ frame'.node \notin Ancestors(dom, frame.node)
                 /\ \A n \in Ancestors(dom, frame.node) :
                        Place(order, n) < Place(order, frame'.node)
                 /\ \A n \in Ancestors(dom, frame.node) \ Ancestors(dom, frame'.node) :
                        \E i \in 1..Len(ExitedNow) : ExitedNow[i] = n
           /\ (frame.pc = "loop" /\ frame'.exit = "null") => Following = {}]_vars

\* <div>a<textarea>t</textarea><div></div>b</div>, backward from the end of
\* "b": the empty div and the textarea have been visited, the text of the
\* textarea passed over, and the traversal is at "a".
C33_Witness ==
    /\ AtText
    /\ dom = DocForm
    /\ ctor = [node |-> 6, offset |-> 1]
    /\ ~frame.forward
    /\ frame.node = 2
    /\ this.content = <<98>>

RECURSIVE ReverseCodePoints(_)
\* A string with its code points in reverse order: the two units of a
\* surrogate pair stay in their order.
ReverseCodePoints(s) ==
    IF s = <<>> THEN <<>>
    ELSE LET char == readCodePointsForward(s, 0)
         IN  ReverseCodePoints(SubSeq(s, Len(char) + 1, Len(s))) \o char

\* The mirrored document: the children of every node in reverse order and
\* every text reversed.
Mirror(d) ==
    [n \in 1..Len(d) |->
        [d[n] EXCEPT !.childNodes = Reverse(@),
                     !.nodeValue = ReverseCodePoints(@)]]

\* The offset in the mirrored text of an offset in a text.
MirrorOffset(d, node, offset) ==
    IF IsTextNode(d, node) THEN Len(d[node].nodeValue) - offset ELSE offset

\* The offset is not between the two units of a surrogate pair.
AtCodePoint(d, node, offset) ==
    ~(/\ IsTextNode(d, node)
      /\ offset > 0
      /\ offset < Len(d[node].nodeValue)
      /\ isHighSurrogate(d[node].nodeValue[offset])
      /\ isLowSurrogate(d[node].nodeValue[offset + 1]))

\* The cursor was constructed where a backward scan has the whole document
\* before it: at its root, or at the end of its last text.
AtDocumentEnd ==
    \/ ctor.node = Root(dom)
    \/ /\ ctor.node = Len(dom)
       /\ IsTextNode(dom, ctor.node)
       /\ ctor.offset = Len(dom[ctor.node].nodeValue)

\* C34: direction symmetry.  The first seek of a cursor, seek(-n) or
\* seek(n), gives the content, reversed by code point, and the remainder that
\* seek(n) or seek(-n) gives to the cursor constructed at the same node and
\* the mirrored offset of the mirrored document (children and texts
\* reversed); in particular seek(-n) from the end of the document against
\* seek(n) from the start of the mirrored one.
C34_DirectionSymmetry ==
    (Idle /\ Len(calls) = 1 /\ AtCodePoint(dom, ctor.node, ctor.offset)) =>
        LET mirror == Mirror(dom)
            before == calls[1].before
            other == seek(mirror,
                          constructor(mirror, ctor.node,
                                      MirrorOffset(dom, ctor.node, ctor.offset),
                                      before.forcePreserveWhitespace,
                                      before.generateLayoutContent),
                          -calls[1].length)
        IN  /\ this.content = ReverseCodePoints(other.content)
            /\ this.remainder = other.remainder
            /\ this.node = other.node
            /\ IsTextNode(dom, this.node) =>
                  this.offset = Len(dom[this.node].nodeValue) - other.offset
            /\ this.newlines = other.newlines

\* "a", a surrogate pair, "b": seek(-3) from the end of the text gives what
\* seek(3) gives from the start of "b", the pair, "a".
C34_Witness ==
    /\ Idle
    /\ AtDocumentEnd
    /\ dom = DocAstral
    /\ ctor = [node |-> 2, offset |-> 4]
    /\ Len(calls) = 1
    /\ calls[1].length = -3
    /\ this.content = <<97, 55360, 56331, 98>>
    /\ this.remainder = 0

\* ------------------------------------- claims about runs of characters

RECURSIVE Padded(_)
\* A text with a zero-width space before each of its code points and a
\* zero-width non-joiner after the last.
Padded(s) ==
    IF s = <<>> THEN <<ZWNJ>>
    ELSE LET char == readCodePointsForward(s, 0)
         IN  <<ZWSP>> \o char \o Padded(SubSeq(s, Len(char) + 1, Len(s)))

\* The document with every text padded.
PaddedDoc(d) ==
    [n \in 1..Len(d) |->
        IF IsTextNode(d, n) THEN [d[n] EXCEPT !.nodeValue = Padded(@)] ELSE d[n]]

\* The offset in the padded text of an offset in a text: one more for every
\* code point that starts before it.
PaddedOffset(d, node, offset) ==
    IF IsTextNode(d, node)
    THEN offset + Cardinality({i \in 1..offset :
                    ~(/\ isLowSurrogate(d[node].nodeValue[i])
                      /\ i > 1
                      /\ isHighSurrogate(d[node].nodeValue[i - 1]))})
    ELSE offset

\* The cursor with the offset left out.
ButOffset(t) == [t EXCEPT !.offset = 0]

\* C35: an ignorable character (zero-width space, zero-width non-joiner)
\* changes nothing but the offset.  Its check leaves the cursor as it is, in
\* both directions and in every state; and the first seek of a cursor gives
\* the content, remainder, pending newlines, line flags and node it gives
\* when every text of the document has such a character before each code
\* point and after the last: none appears in content, and none breaks or
\* creates a whitespace run.
C35_IgnorableCharacters ==
    /\ \A c \in {ZWSP, ZWNJ} : \A pn \in BOOLEAN : \A pw \in BOOLEAN :
          LET charAttributes == getCharacterAttributes(<<c>>, pn, pw)
          IN  /\ charAttributes = Ignorable
              /\ checkCharacterForward(this, <<c>>, charAttributes)
                    = [this |-> this, ret |-> FALSE]
              /\ checkCharacterBackward(this, <<c>>, charAttributes)
                    = [this |-> this, ret |-> FALSE]
    /\ (Idle /\ Len(calls) = 1) =>
          LET padded == PaddedDoc(dom)
              before == calls[1].before
              other == seek(padded,
                            constructor(padded, ctor.node,
                                        PaddedOffset(dom, ctor.node, ctor.offset),
                                        before.forcePreserveWhitespace,
                                        before.generateLayoutContent),
                            calls[1].length)
          IN  /\ ButOffset(this) = ButOffset(other)
              /\ \A i \in 1..Len(this.content) : this.content[i] \notin {ZWSP, ZWNJ}

\* "a", zero-width space, " ", zero-width non-joiner, "b": seek(3) from the
\* start gives "a b".
C35_Witness ==
    /\ Idle
    /\ dom = DocZeroWidth
    /\ ctor = [node |-> 2, offset |-> 0]
    /\ Len(calls) = 1
    /\ calls[1].length = 3
    /\ this.content = <<97, SPACE, 98>>
    /\ this.remainder = 0
    /\ this.offset = 5

\* What the check of the character "b" gives on the cursor.
NextLetterForward == checkCharacterForward(this, <<98>>, Significant).this

NextLetterBackward == checkCharacterBackward(this, <<98>>, Significant).this

\* The characters of a text.
Characters(s) == {s[i] : i \in 1..Len(s)}

\* Every seek so far went the same way.
OneDirection ==
    \/ \A i \in 1..Len(calls) : calls[i].length >= 0
    \/ \A i \in 1..Len(calls) : calls[i].length <= 0

\* No two spaces side by side in the content.
NoDoubleSpace ==
    \A i \in 1..(Len(this.content) - 1) :
        ~(this.content[i] = SPACE /\ this.content[i + 1] = SPACE)

\* C36: a run of collapsible whitespace between two non-newline significant
\* characters with no layout newline pending gives exactly one space and
\* costs exactly 1 of the length, also when it is split across text nodes,
\* inline elements or two seek calls; with a layout newline pending when the
\* second character is processed it gives no space.  With a run recorded
\* and length left, the next letter puts one space (and itself, if the
\* length allows) into content when no newline is pending, and only the
\* newlines and itself when one is; and where no text preserves whitespace
\* and every seek went the same way, content never holds two spaces side by
\* side.
C36_WhitespaceRunIsOneSpace ==
    /\ (this.lineHasWhitespace /\ this.remainder > 0 /\ this.newlines = 0) =>
          /\ NextLetterForward.content
                = this.content \o <<SPACE>> \o (IF this.remainder > 1 THEN <<98>> ELSE <<>>)
          /\ NextLetterForward.remainder = Max(this.remainder - 2, 0)
          /\ NextLetterBackward.content
                = (IF this.remainder > 1 THEN <<98>> ELSE <<>>) \o <<SPACE>> \o this.content
          /\ NextLetterBackward.remainder = Max(this.remainder - 2, 0)
    /\ (this.lineHasWhitespace /\ this.remainder > 0 /\ this.newlines > 0) =>
          /\ SPACE \notin Characters(SubSeq(NextLetterForward.content,
                                       Len(this.content) + 1,
                                       Len(NextLetterForward.content)))
          /\ SPACE \notin Characters(SubSeq(NextLetterBackward.content, 1,
                                       Len(NextLetterBackward.content) - Len(this.content)))
    /\ (NoPreservedWhitespace /\ OneDirection) => NoDoubleSpace

\* A forward seek(k), k > 0, has returned on a cursor whose forward seek
\* before it ran out of document.
SoughtAfterExhaustion ==
    /\ Idle
    /\ Len(calls) = 2
    /\ calls[1].length > 0
    /\ calls[2].length > 0
    /\ calls[2].before.remainder > 0

\* C37: once a forward seek has exhausted the document (remainder > 0), a
\* further forward seek(k), k > 0, leaves content, node and offset as they
\* were and returns remainder k: the text of the last node is not scanned a
\* second time.
C37_SeekAfterExhaustion ==
    SoughtAfterExhaustion =>
        /\ this.content = calls[2].before.content
        /\ this.node = calls[2].before.node
        /\ this.offset = calls[2].before.offset
        /\ this.remainder = calls[2].length

\* ------------------------------- claims about the updates of a DisplayAnki

UpdateCalls == 1..MaxUpdates

\* The calls whose request for the dictionary entry details is in flight.
InFlight == {c \in UpdateCalls : updates[c].pc = "getDictionaryEntryDetails"}

\* The step writes _dictionaryEntryDetails or updates the adder buttons.
WritesDetails ==
    \/ /\ displayAnki.dictionaryEntryDetails' # displayAnki.dictionaryEntryDetails
       /\ displayAnki.dictionaryEntryDetails' # NoDetails
    \/ displayAnki.adderButtons' # displayAnki.adderButtons

\* C38: _updateDictionaryEntryDetails applies only the newest request. In
\* every step in which a call goes on while its token is not the current
\* _updateDictionaryEntryDetailsToken (a later call or a content clear has
\* superseded it), _dictionaryEntryDetails and the adder buttons stay as
\* they are; and every step that writes them is the settling of the request
\* of the call whose token is current, and writes the array of that request.
C38_OnlyNewestRequestApplied ==
    [][/\ \A c \in UpdateCalls :
             (/\ updates[c]' # updates[c]
              /\ displayAnki.updateDictionaryEntryDetailsToken # c) =>
                 /\ displayAnki.dictionaryEntryDetails' = displayAnki.dictionaryEntryDetails
                 /\ displayAnki.adderButtons' = displayAnki.adderButtons
       /\ WritesDetails =>
             LET token == displayAnki.updateDictionaryEntryDetailsToken
             IN  /\ token # NULL
                 /\ updates[token].pc = "getDictionaryEntryDetails"
                 /\ updates[token]'.pc = "done"
                 /\ displayAnki.dictionaryEntryDetails'.request = token
                 /\ displayAnki.adderButtons'
                       = updateAdderButtons(displayAnki.dictionaryEntryDetails')]_vars

\* The second call was made while the request of the first was in flight and
\* the third while the second waited; the first and the second, superseded,
\* have ended and nothing has been written.
C38_Witness ==
    /\ updates[1].pc = "done"
    /\ updates[2].pc = "done"
    /\ updates[2].awaited = 1
    /\ updates[3].awaited = 1
    /\ updates[3].pc = "getDictionaryEntryDetails"
    /\ displayAnki.updateDictionaryEntryDetailsToken = 3
    /\ displayAnki.dictionaryEntryDetails = NoDetails
    /\ displayAnki.adderButtons = <<>>

\* C39: the fetch of the details is serialized. At most one request
\* _getDictionaryEntryDetails is in flight at a time,
\* _updateAdderButtonsPromise is the promise of the call whose request is in
\* flight and null when none is, so it is null when all calls have ended;
\* and every call that waits, on the promise or on its request, ends.
C39_FetchSerialized ==
    /\ [](/\ Cardinality(InFlight) <= 1
          /\ (displayAnki.updateAdderButtonsPromise # NULL) = (InFlight # {})
          /\ displayAnki.updateAdderButtonsPromise # NULL =>
                displayAnki.updateAdderButtonsPromise \in InFlight
          /\ (\A c \in UpdateCalls : updates[c].pc \in {"start", "done"}) =>
                displayAnki.updateAdderButtonsPromise = NULL)
    /\ \A c \in UpdateCalls :
          (updates[c].pc \in {"updateAdderButtonsPromise", "getDictionaryEntryDetails"})
              ~> (updates[c].pc = "done")

\* The request of the second call is in flight after the first has ended,
\* and the third call waits for the promise of the second.
C39_Witness ==
    /\ updates[1].pc = "done"
    /\ updates[2].awaited = 1
    /\ InFlight = {2}
    /\ updates[3].pc = "updateAdderButtonsPromise"
    /\ updates[3].awaited = 2
    /\ displayAnki.updateAdderButtonsPromise = 2

\* ------------------------------------ claims about the content of a Display

RenderCalls == 1..MaxRenders

\* The call is in flight, at one of its awaits, and a newer call of
\* _onStateChanged has started and replaced its token.
Superseded(c) ==
    /\ renders[c].pc \notin {"start", "done"}
    /\ theDisplay.setContentToken # c

\* The step leaves _dictionaryEntries, _dictionaryEntryNodes and the
\* container as they are.
EntriesKept ==
    /\ theDisplay.dictionaryEntries' = theDisplay.dictionaryEntries
    /\ theDisplay.dictionaryEntryNodes' = theDisplay.dictionaryEntryNodes
    /\ theDisplay.container' = theDisplay.container

\* The step triggers neither contentUpdateStart nor contentUpdateComplete.
NoContentUpdateTriggered ==
    /\ theDisplay.triggered'.contentUpdateStart = theDisplay.triggered.contentUpdateStart
    /\ theDisplay.triggered'.contentUpdateComplete
          = theDisplay.triggered.contentUpdateComplete

====
